---------------------------- MODULE Spec2Model ----------------------------
(***************************************************************************)
(* A model of i3's command parser, src/commands_parser.c: the argument     *)
(* stack, the string/word scanner parse_string, the state transition       *)
(* next_state and the driver loop of parse_command.                        *)
(*                                                                         *)
(* A character is a string of length one, a C string is a sequence of      *)
(* characters; the terminating 0-byte is the value NUL, which no input     *)
(* contains.  Offsets are 0-based like the C pointers' differences.        *)
(* The production build is modelled (TEST_PARSER undefined), so the calls  *)
(* of cmd_criteria_init are part of parse_command.                         *)
(***************************************************************************)
EXTENDS Integers, Sequences, FiniteSets, TLC

VARIABLES
    tokens,          \* the token table of the build (GENERATED_command_tokens.h)
    pc,              \* "idle": no call in progress; "loop": in the driver loop;
                     \* "failed": left the loop by the break; "aborted": exit()
    input,           \* parse_command's input
    gen,             \* parse_command's yajl_gen argument: NULL or a generator
    walk,            \* offset of the walk pointer in input
    state,           \* static cmdp_state state
    stack,           \* static struct stack stack
    current_match,   \* static Match current_match (opaque selection context)
    command_output,  \* static struct CommandResultIR command_output
    result,          \* the CommandResult of the call (returned when pc = "idle")
    yajl,            \* what parse_command has written to the generator in this call
    errpos,          \* the position string of the call's failure, as logged
    criteria_inits,  \* calls of cmd_criteria_init made by this parse_command call
    calls,           \* the GENERATED_call dispatches of this parse_command call
    last             \* what the last step of the driver did

vars == <<tokens, pc, input, gen, walk, state, stack, current_match,
          command_output, result, yajl, errpos, criteria_inits, calls, last>>

-----------------------------------------------------------------------------
(* Characters and strings *)

NUL == "NUL"
NULL == "NULL"

\* The strings the parser compares token names with.
S_number == <<"n", "u", "m", "b", "e", "r">>
S_string == <<"s", "t", "r", "i", "n", "g">>
S_word == <<"w", "o", "r", "d">>
S_end == <<"e", "n", "d">>

UpperCase == <<"A", "B", "C", "D", "E", "F", "G", "H", "I", "J", "K", "L", "M",
               "N", "O", "P", "Q", "R", "S", "T", "U", "V", "W", "X", "Y", "Z">>
LowerCase == <<"a", "b", "c", "d", "e", "f", "g", "h", "i", "j", "k", "l", "m",
               "n", "o", "p", "q", "r", "s", "t", "u", "v", "w", "x", "y", "z">>

tolower(ch) ==
    IF \E i \in 1..26 : UpperCase[i] = ch
    THEN LowerCase[CHOOSE i \in 1..26 : UpperCase[i] = ch]
    ELSE ch

Digits == <<"0", "1", "2", "3", "4", "5", "6", "7", "8", "9">>
isdigit(ch) == \E i \in 1..10 : Digits[i] = ch
DigitVal(ch) == (CHOOSE i \in 1..10 : Digits[i] = ch) - 1

\* The character at offset i of the C string s (the 0-byte at its end).
At(s, i) == IF i >= 0 /\ i < Len(s) THEN s[i + 1] ELSE NUL

strlen(s) == Len(s)

\* strncasecmp(s + off, lit, strlen(lit)) == 0
strncasecmp0(s, off, lit) ==
    \A i \in 0..(Len(lit) - 1) : tolower(At(s, off + i)) = tolower(lit[i + 1])


-----------------------------------------------------------------------------
(* The argument stack: struct stack, an array of 10 entries.  val is a     *)
(* union of str and num; the model keeps both members, the one not written *)
(* by a push staying at its cleared value.                                 *)

StackSize == 10
STACK_STR == "STACK_STR"
STACK_LONG == "STACK_LONG"
NULLSTR == <<NULL>>

Slots == 0..(StackSize - 1)

\* A static struct stack is zero-initialized.
ZeroStack ==
    [c \in Slots |-> [identifier |-> NULL, type |-> STACK_STR,
                      str |-> NULLSTR, num |-> 0]]

\* The slots the loops of push_string and push_long skip.
Occupied(stk) == {c \in Slots : stk[c].identifier # NULL}

\* The push loops find no free slot: the "BUG: stack full" exit.
StackFull(stk) == Occupied(stk) = Slots

\* Every push goes to slot 0.
FirstFree_zero(stk) == 0

\* The push takes the highest free slot.
FirstFree_last(stk) ==
    CHOOSE c \in Slots \ Occupied(stk) : \A d \in Slots \ Occupied(stk) : d <= c

FirstFree(stk) == CHOOSE c \in Slots \ Occupied(stk) :
                      \A d \in Slots \ Occupied(stk) : c <= d

\* The string lands in slot 0, free or not.
push_string_first(stk, identifier, str) ==
    [stk EXCEPT ![0] =
        [identifier |-> identifier, type |-> STACK_STR, str |-> str, num |-> 0]]

push_string(stk, identifier, str) ==
    [stk EXCEPT ![FirstFree(stk)] =
        [identifier |-> identifier, type |-> STACK_STR, str |-> str, num |-> 0]]

\* The number is not stored.
push_long_lost(stk, identifier, num) == stk

push_long(stk, identifier, num) ==
    [stk EXCEPT ![FirstFree(stk)] =
        [identifier |-> identifier, type |-> STACK_LONG, str |-> NULLSTR, num |-> num]]

\* The slots get_string and get_long look at: those before the first free one.
Scanned(stk) == {c \in Slots : \A d \in 0..c : stk[d].identifier # NULL}

Found(stk, identifier) == {c \in Scanned(stk) : stk[c].identifier = identifier}

FirstFound(stk, identifier) ==
    CHOOSE c \in Found(stk, identifier) : \A d \in Found(stk, identifier) : c <= d

get_string(stk, identifier) ==
    IF Found(stk, identifier) = {} THEN NULLSTR
    ELSE stk[FirstFound(stk, identifier)].str

get_long(stk, identifier) ==
    IF Found(stk, identifier) = {} THEN 0
    ELSE stk[FirstFound(stk, identifier)].num

\* clear_stack frees the strings and resets identifier and val, not type.
clear_stack(stk) ==
    [c \in Slots |-> [identifier |-> NULL, type |-> stk[c].type,
                      str |-> NULLSTR, num |-> 0]]

-----------------------------------------------------------------------------
(* parse_string *)

RECURSIVE ScanQuoted(_, _)

\* The character after a backslash is skipped even when it is the 0-byte.
ScanQuoted_skip(s, w) ==
    IF At(s, w) = NUL \/ At(s, w) = "\"" THEN w
    ELSE IF At(s, w) = "\\" THEN ScanQuoted(s, w + 2)
    ELSE ScanQuoted(s, w + 1)

\* for (; **walk != '\0' && **walk != '"'; (*walk)++)
\*     if (**walk == '\\' && *(*walk + 1) != '\0') (*walk)++;
ScanQuoted(s, w) ==
    IF At(s, w) = NUL \/ At(s, w) = "\"" THEN w
    ELSE IF At(s, w) = "\\" /\ At(s, w + 1) # NUL THEN ScanQuoted(s, w + 2)
    ELSE ScanQuoted(s, w + 1)

RECURSIVE ScanUntil(_, _, _)
\* while (**walk is none of the delimiters) (*walk)++;
ScanUntil(s, w, delims) ==
    IF At(s, w) \in delims THEN w ELSE ScanUntil(s, w + 1, delims)

\* A string stops at white space too.
StringDelims_space == {";", ",", NUL, "\r", "\n", " ", "\t"}

StringDelims == {";", ",", NUL, "\r", "\n"}
WordDelims == {" ", "\t", "]", ",", ";", "\r", "\n", NUL}

\* Only a backslash before a double quote is dropped.
Escaped_quote(s, i) == At(s, i) = "\\" /\ At(s, i + 1) = "\""

\* Whether the copy loop drops the backslash at offset i.
Escaped(s, i) == At(s, i) = "\\" /\ At(s, i + 1) \in {"\"", "\\"}

RECURSIVE Unescape(_, _, _, _)
\* The copy loop: beginning[inpos] for inpos < n, an escaped double quote or
\* backslash losing its backslash.
Unescape(s, beginning, n, inpos) ==
    IF inpos >= n THEN <<>>
    ELSE IF Escaped(s, beginning + inpos)
    THEN <<At(s, beginning + inpos + 1)>> \o Unescape(s, beginning, n, inpos + 2)
    ELSE <<At(s, beginning + inpos)>> \o Unescape(s, beginning, n, inpos + 1)

\* A value that runs to the 0-byte is no match.
Scanned2String_terminated(s, beginning, wend) ==
    IF wend = beginning \/ At(s, wend) = NUL
    THEN [str |-> NULLSTR, walk |-> wend]
    ELSE [str |-> Unescape(s, beginning, wend - beginning, 0), walk |-> wend]

\* The end of parse_string, with walk at wend: NULL when nothing was scanned,
\* else the copy of [beginning, wend).
Scanned2String(s, beginning, wend) ==
    IF wend = beginning
    THEN [str |-> NULLSTR, walk |-> wend]
    ELSE [str |-> Unescape(s, beginning, wend - beginning, 0), walk |-> wend]

\* parse_string(&walk, as_word): the returned string (NULLSTR for NULL) and
\* the walk pointer it leaves behind.
parse_string(s, w, as_word) ==
    IF At(s, w) = "\""
    THEN Scanned2String(s, w + 1, ScanQuoted(s, w + 1))
    ELSE IF ~as_word
    THEN Scanned2String(s, w, ScanUntil(s, w, StringDelims))
    ELSE Scanned2String(s, w, ScanUntil(s, w, WordDelims))

-----------------------------------------------------------------------------
(* strtol(walk, &end, 10) on an LP64 platform *)

StrtolSpace == {" ", "\t", "\n", "\f", "\r"}

RECURSIVE SkipSet(_, _, _)
SkipSet(s, w, set) == IF At(s, w) \in set THEN SkipSet(s, w + 1, set) ELSE w

RECURSIVE DigitsEnd(_, _)
DigitsEnd(s, w) == IF isdigit(At(s, w)) THEN DigitsEnd(s, w + 1) ELSE w

RECURSIVE DigitsFrom(_, _, _)
\* The digits of s in [from, to) without leading zeros.
DigitsFrom(s, from, to) ==
    IF from >= to THEN <<>>
    ELSE IF At(s, from) = "0" /\ from + 1 < to THEN DigitsFrom(s, from + 1, to)
    ELSE [i \in 1..(to - from) |-> DigitVal(At(s, from + i - 1))]

\* LONG_MAX = 9223372036854775807, -LONG_MIN = 9223372036854775808
LongMaxDigits == <<9, 2, 2, 3, 3, 7, 2, 0, 3, 6, 8, 5, 4, 7, 7, 5, 8, 0, 7>>
LongMinDigits == <<9, 2, 2, 3, 3, 7, 2, 0, 3, 6, 8, 5, 4, 7, 7, 5, 8, 0, 8>>

\* a > b for digit sequences without leading zeros
DigitsGreater(a, b) ==
    \/ Len(a) > Len(b)
    \/ /\ Len(a) = Len(b)
       /\ \E i \in 1..Len(a) : a[i] > b[i] /\ \A j \in 1..(i - 1) : a[j] = b[j]

RECURSIVE DigitsValue(_, _)
DigitsValue(d, n) == IF n = 0 THEN 0 ELSE 10 * DigitsValue(d, n - 1) + d[n]

\* The value of the digits d that end at w3: erange when it does not fit a
\* long (strtol then returns LONG_MIN or LONG_MAX and sets errno to ERANGE).
StrtolValue(neg, w3, d) ==
    IF DigitsGreater(d, IF neg THEN LongMinDigits ELSE LongMaxDigits)
    THEN [erange |-> TRUE, end |-> w3, num |-> 0]
    ELSE [erange |-> FALSE, end |-> w3,
          num |-> IF neg THEN 0 - DigitsValue(d, Len(d)) ELSE DigitsValue(d, Len(d))]

\* The digits in [w2, w3): end = walk when no digit converts.
StrtolDigits(s, w, neg, w2, w3) ==
    IF w3 = w2 THEN [erange |-> FALSE, end |-> w, num |-> 0]
    ELSE StrtolValue(neg, w3, DigitsFrom(s, w2, w3))

\* The optional sign at w1.
StrtolSign(s, w, w1) ==
    IF At(s, w1) \in {"-", "+"}
    THEN StrtolDigits(s, w, At(s, w1) = "-", w1 + 1, DigitsEnd(s, w1 + 1))
    ELSE StrtolDigits(s, w, FALSE, w1, DigitsEnd(s, w1))

strtol(s, w) == StrtolSign(s, w, SkipSet(s, w, StrtolSpace))

-----------------------------------------------------------------------------
(* The token table.  GENERATED_command_tokens.h is generated from          *)
(* parser-specs/commands.spec; the table below has that file's shape, cut  *)
(* down to five states: tokens[state] is the ordered token list of a       *)
(* state, a token is {name, identifier, next_state, extra.call_identifier},*)
(* a literal's name starts with a single quote.                            *)

CALL == "__CALL"

Lit(text) == <<"'">> \o text

S_move == <<"m", "o", "v", "e">>
S_left == <<"l", "e", "f", "t">>
S_right == <<"r", "i", "g", "h", "t">>
S_exec == <<"e", "x", "e", "c">>
S_nosn == <<"-", "-", "n", "o", "-", "s", "t", "a", "r", "t", "u", "p", "-", "i", "d">>
S_nop == <<"n", "o", "p">>

Token(name, identifier, next, call) ==
    [name |-> name, identifier |-> identifier, next_state |-> next,
     call_identifier |-> call]

CommandTokens ==
    [INITIAL |->
        << Token(S_end, NULL, "INITIAL", 0),
           Token(Lit(S_move), NULL, "MOVE", 0),
           Token(Lit(S_exec), NULL, "EXEC", 0),
           Token(Lit(S_nop), NULL, "NOP", 0) >>,
     MOVE |->
        << Token(Lit(S_left), "direction", "MOVE_DIRECTION", 0),
           Token(Lit(S_right), "direction", "MOVE_DIRECTION", 0),
           Token(S_word, "output", CALL, 1) >>,
     MOVE_DIRECTION |->
        << Token(S_number, "pixels", CALL, 2),
           Token(S_end, NULL, CALL, 2) >>,
     EXEC |->
        << Token(Lit(S_nosn), "nosn", "EXEC", 0),
           Token(S_string, "command", CALL, 3) >>,
     NOP |->
        << Token(S_string, "comment", CALL, 4),
           Token(S_end, NULL, CALL, 4) >>]

Tables == {CommandTokens}

States(tab) == DOMAIN tab

-----------------------------------------------------------------------------
(* One iteration of the driver loop of parse_command, as functions of the  *)
(* input, the token list and the walk offset.                              *)

\* No white space is skipped before a token.
SkipWhitespace_none(s, w) == w

\* One character of white space is skipped at most.
SkipWhitespace_one(s, w) ==
    IF At(s, w) \in {" ", "\t", "\r", "\n"} THEN w + 1 ELSE w

RECURSIVE SkipWhitespace(_, _)
\* while ((*walk == ' ' || '\t' || '\r' || '\n') && *walk != '\0') walk++;
SkipWhitespace(s, w) ==
    IF At(s, w) \in {" ", "\t", "\r", "\n"} THEN SkipWhitespace(s, w + 1) ELSE w

IsLiteral(token) == token.name[1] = "'"
IsNumber(token) == token.name = S_number
IsString(token) == token.name = S_string \/ token.name = S_word
IsEnd(token) == token.name = S_end

\* The body of the for loop for one token with the walk pointer at w:
\* whether the token is handled, what it pushes, and where it leaves walk.
\* at is the offset the token was tried at, walk the offset after it.
NoPush == [type |-> "none", str |-> NULLSTR, num |-> 0]

NotHandled(w, wleft) == [handled |-> FALSE, at |-> w, walk |-> wleft, push |-> NoPush]

Handled(token, w, wnext, push) ==
    [handled |-> TRUE, at |-> w, walk |-> wnext,
     push |-> IF token.identifier # NULL THEN push ELSE NoPush]

\* The capture is the input's spelling of the literal.
TryLiteral_spelling(s, token, w) ==
    IF strncasecmp0(s, w, Tail(token.name))
    THEN Handled(token, w, w + strlen(token.name) - 1,
                 [type |-> STACK_STR,
                  str |-> SubSeq(s, w + 1, w + strlen(token.name) - 1), num |-> 0])
    ELSE NotHandled(w, w)

\* A literal is handled only before white space or the end of a command.
TryLiteral_delimited(s, token, w) ==
    IF strncasecmp0(s, w, Tail(token.name))
          /\ At(s, w + strlen(token.name) - 1) \in {" ", "\t", NUL, ",", ";"}
    THEN Handled(token, w, w + strlen(token.name) - 1,
                 [type |-> STACK_STR, str |-> Tail(token.name), num |-> 0])
    ELSE NotHandled(w, w)

TryLiteral(s, token, w) ==
    IF strncasecmp0(s, w, Tail(token.name))
    THEN Handled(token, w, w + strlen(token.name) - 1,
                 [type |-> STACK_STR, str |-> Tail(token.name), num |-> 0])
    ELSE NotHandled(w, w)

\* The ERANGE test is left out.
TryNumber_anyrange(token, w, r) ==
    IF r.end = w
    THEN NotHandled(w, w)
    ELSE Handled(token, w, r.end, [type |-> STACK_LONG, str |-> NULLSTR, num |-> r.num])

\* The test for a conversion without digits is left out.
TryNumber_nodigits(token, w, r) ==
    IF r.erange
    THEN NotHandled(w, w)
    ELSE Handled(token, w, r.end, [type |-> STACK_LONG, str |-> NULLSTR, num |-> r.num])

\* r is what strtol returned.
TryNumber(token, w, r) ==
    IF r.erange \/ r.end = w
    THEN NotHandled(w, w)
    ELSE Handled(token, w, r.end, [type |-> STACK_LONG, str |-> NULLSTR, num |-> r.num])

\* The walk pointer after a string: past the double quote it stopped at.
SkipClosingQuote(s, w) == IF At(s, w) = "\"" THEN w + 1 ELSE w

\* r is what parse_string returned and where it left walk.
TryString(s, token, w, r) ==
    IF r.str # NULLSTR
    THEN Handled(token, w, SkipClosingQuote(s, r.walk),
                 [type |-> STACK_STR, str |-> r.str, num |-> 0])
    ELSE NotHandled(w, r.walk)

\* The end of the input is no end of a command.
EndChars_nonul == {",", ";"}

EndChars == {NUL, ",", ";"}

\* The end token is handled and walk stays on the terminator.
TryEnd_stay(s, token, w) ==
    IF At(s, w) \in EndChars THEN Handled(token, w, w, NoPush) ELSE NotHandled(w, w)

TryEnd(s, token, w) ==
    IF At(s, w) \in EndChars THEN Handled(token, w, w + 1, NoPush) ELSE NotHandled(w, w)

TryToken(s, token, w) ==
    IF IsLiteral(token) THEN TryLiteral(s, token, w)
    ELSE IF IsNumber(token) THEN TryNumber(token, w, strtol(s, w))
    ELSE IF IsString(token) THEN TryString(s, token, w, parse_string(s, w, token.name[1] # "s"))
    ELSE IF IsEnd(token) THEN TryEnd(s, token, w)
    ELSE NotHandled(w, w)

RECURSIVE TryTokens(_, _, _, _)

\* The last token that handles the input is taken, not the first.
TryRest_last(s, list, c, r) ==
    IF r.handled /\ ~TryTokens(s, list, c + 1, r.at).handled
    THEN [handled |-> TRUE, c |-> c, at |-> r.at, walk |-> r.walk, push |-> r.push]
    ELSE TryTokens(s, list, c + 1, IF r.handled THEN r.at ELSE r.walk)

\* r is the outcome of token c: the loop breaks when it is handled, and
\* continues with the next token where it left walk when not.
TryRest(s, list, c, r) ==
    IF r.handled THEN [handled |-> TRUE, c |-> c, at |-> r.at, walk |-> r.walk,
                       push |-> r.push]
    ELSE TryTokens(s, list, c + 1, r.walk)

\* for (c = 0; c < ptr->n; c++): the tokens list[c..] tried in order from
\* offset w; c is the index of the token handled, 0 when none is.
TryTokens(s, list, c, w) ==
    IF c > Len(list)
    THEN [handled |-> FALSE, c |-> 0, at |-> w, walk |-> w, push |-> NoPush]
    ELSE TryRest(s, list, c, TryToken(s, list[c], w))

\* The iteration that starts with the walk pointer at w in state st.
Iteration(tab, s, st, w) == TryTokens(s, tab[st], 1, SkipWhitespace(s, w))


-----------------------------------------------------------------------------
(* The error message and the position line of a failed match *)

S_expected == <<"E", "x", "p", "e", "c", "t", "e", "d", " ", "o", "n", "e", " ",
                "o", "f", " ", "t", "h", "e", "s", "e", " ", "t", "o", "k", "e",
                "n", "s", ":", " ">>

RECURSIVE PossibleTokens(_, _)
\* The names of list[c..]: a literal in single quotes, any other token in
\* angle brackets, ", " after each but the last.
PossibleTokens(list, c) ==
    IF c > Len(list) THEN <<>>
    ELSE LET token == list[c]
             one == IF IsLiteral(token)
                    THEN <<"'">> \o Tail(token.name) \o <<"'">>
                    ELSE <<"<">> \o token.name \o <<">">>
             sep == IF c < Len(list) THEN <<",", " ">> ELSE <<>>
         IN  one \o sep \o PossibleTokens(list, c + 1)

\* The message is the list of the tokens alone.
ErrorMessage_bare(list) == PossibleTokens(list, 1)

\* sasprintf(&errormessage, "Expected one of these tokens: %s", possible_tokens)
ErrorMessage(list) == S_expected \o PossibleTokens(list, 1)

\* The carets start after the walk pointer.
Position_after(s, w) == [i \in 1..Len(s) |-> IF i - 1 > w THEN "^" ELSE " "]

\* position[i] = (input + i >= walk ? '^' : ' ') for every i < len
Position(s, w) == [i \in 1..Len(s) |-> IF i - 1 >= w THEN "^" ELSE " "]

-----------------------------------------------------------------------------
(* The reply written through the y() and ystr() macros: nothing when the   *)
(* generator is NULL.                                                      *)

Ev(ev, arg) == [ev |-> ev, arg |-> arg]

\* The events are written whatever the generator is.
y_always(g, out, events) == out \o events

y(g, out, events) == IF g # NULL THEN out \o events ELSE out

ErrorReply(msg, s, position) ==
    << Ev("map_open", <<>>),
       Ev("string", <<"success">>), Ev("bool", <<"false">>),
       Ev("string", <<"parse_error">>), Ev("bool", <<"true">>),
       Ev("string", <<"error">>), Ev("string", msg),
       Ev("string", <<"input">>), Ev("string", s),
       Ev("string", <<"errorposition">>), Ev("string", position),
       Ev("map_close", <<>>) >>

-----------------------------------------------------------------------------
(* next_state and the handlers behind GENERATED_call *)

\* cmd_criteria_init leaves the selection context initialized; a handler
\* leaves it as it is or adds criteria to it.
MatchInit == "init"
MatchCriteria == "criteria"

\* The states the handlers of the table continue in: INITIAL after a command,
\* another state after a part of one (as cmd_criteria_init does in i3).
HandlerStates(tab) == {"INITIAL", "EXEC"} \cap DOMAIN tab

\* What a handler hands back in subcommand_output, and what it does to
\* current_match.
HandlerOutcomes(tab, cm) ==
    [next_state : HandlerStates(tab), needs_tree_render : BOOLEAN,
     match : {cm, MatchCriteria}]

MergeTreeRender_assign(old, flag) == flag

\* command_output.needs_tree_render after a handler returned flag.
MergeTreeRender(old, flag) == IF flag THEN TRUE ELSE old

StateAfterCall_initial(h) == "INITIAL"

\* state = subcommand_output.next_state
StateAfterCall(h) == h.next_state

StackAfterCall_keep(stk) == stk

\* The stack after the call branch of next_state.
StackAfterCall(stk) == clear_stack(stk)

\* Every transition without a call clears the stack.
StackAfterTransition_always(stk, st) == clear_stack(stk)

\* The stack after the non-call branch of next_state.
StackAfterTransition(stk, st) == IF st = "INITIAL" THEN clear_stack(stk) ELSE stk

\* next_state(token) with the stack stk; h is what the handler does if called.
next_state(token, stk, needs_tree_render, cm, h) ==
    IF token.next_state = CALL
    THEN [called |-> TRUE,
          state |-> StateAfterCall(h),
          needs_tree_render |-> MergeTreeRender(needs_tree_render, h.needs_tree_render),
          stack |-> StackAfterCall(stk),
          match |-> h.match]
    ELSE [called |-> FALSE,
          state |-> token.next_state,
          needs_tree_render |-> needs_tree_render,
          stack |-> StackAfterTransition(stk, token.next_state),
          match |-> cm]

\* The push a handled token makes before next_state.
Push(stk, identifier, push) ==
    IF push.type = STACK_STR THEN push_string(stk, identifier, push.str)
    ELSE IF push.type = STACK_LONG THEN push_long(stk, identifier, push.num)
    ELSE stk

\* A semicolon does not initialize the criteria again.
EndReinits_nul(ch) == ch = NUL

EndReinits_comma(ch) == ch = NUL \/ ch = ";" \/ ch = ","

\* if (*walk == '\0' || *walk == ';') cmd_criteria_init(...)
EndReinits(ch) == ch = NUL \/ ch = ";"


-----------------------------------------------------------------------------
(* The inputs parse_command is called with: every concatenation of at most *)
(* MaxLexemes pieces of command text, and one command with more identified *)
(* tokens than the stack has slots.                                        *)

MaxLexemes == 2

Lexemes ==
    { S_nop, S_nop \o <<",">>, S_move \o <<" ">> \o S_left, S_exec,
      <<" ">> \o S_nosn, <<"4">>, <<"\"">>, <<",">>, <<";">> }

RECURSIVE Flatten(_)
Flatten(pieces) ==
    IF pieces = <<>> THEN <<>> ELSE Head(pieces) \o Flatten(Tail(pieces))

Concatenations(n) ==
    UNION {{Flatten(pieces) : pieces \in [1..k -> Lexemes]} : k \in 0..n}

RECURSIVE Repeat(_, _)
Repeat(text, n) == IF n = 0 THEN <<>> ELSE text \o Repeat(text, n - 1)

TooManyIdentified == S_exec \o Repeat(S_nosn, StackSize + 1)

Inputs == Concatenations(MaxLexemes) \cup {TooManyIdentified}

Generators == {NULL, "gen"}

-----------------------------------------------------------------------------
(* The state machine *)

NoResult == [parse_error |-> FALSE, error_message |-> NULLSTR,
             needs_tree_render |-> FALSE]

NoStep == [kind |-> "none", c |-> 0, at |-> 0, ch |-> NUL, from |-> "INITIAL",
           called |-> FALSE, pushed |-> FALSE]

Init ==
    /\ tokens \in Tables
    /\ pc = "idle"
    /\ input = <<>>
    /\ gen = NULL
    /\ walk = 0
    /\ state = "INITIAL"
    /\ stack = ZeroStack
    /\ current_match = MatchInit
    /\ command_output = [json_gen |-> NULL, needs_tree_render |-> FALSE]
    /\ result = NoResult
    /\ yajl = <<>>
    /\ errpos = NULLSTR
    /\ criteria_inits = 0
    /\ calls = <<>>
    /\ last = NoStep

StartState_keep(st) == st

\* state = INITIAL at the head of parse_command
StartState(st) == "INITIAL"

\* parse_command up to the driver loop.
ParseCommand(in, g) ==
    /\ pc = "idle"
    /\ pc' = "loop"
    /\ input' = in
    /\ gen' = g
    /\ state' = StartState(state)
    /\ result' = NoResult
    /\ command_output' = [json_gen |-> g, needs_tree_render |-> FALSE]
    /\ yajl' = y(g, <<>>, <<Ev("array_open", <<>>)>>)
    /\ walk' = 0
    /\ current_match' = MatchInit
    /\ criteria_inits' = 1
    /\ calls' = <<>>
    /\ errpos' = NULLSTR
    /\ last' = [NoStep EXCEPT !.kind = "start", !.from = state]
    /\ UNCHANGED <<tokens, stack>>

TokenKind(token) ==
    IF IsLiteral(token) THEN "literal"
    ELSE IF IsNumber(token) THEN "number"
    ELSE IF IsString(token) THEN "string"
    ELSE "end"

StepRecord(kind, it, token, ch) ==
    [kind |-> kind, c |-> it.c, at |-> it.at, ch |-> ch, from |-> state,
     called |-> token.next_state = CALL, pushed |-> it.push.type # "none"]

\* exit(EXIT_FAILURE) in push_string or push_long: the process is gone.
StackFullExit(step) ==
    /\ pc' = "aborted"
    /\ last' = [step EXCEPT !.kind = "abort", !.called = FALSE]
    /\ UNCHANGED <<tokens, input, gen, walk, state, stack, current_match,
                   command_output, result, yajl, errpos, criteria_inits, calls>>

\* The criteria are initialized before the handler is called.
CallRecord_afterinit(token, stk, h) ==
    [call_identifier |-> token.call_identifier, stack |-> stk,
     match |-> MatchInit, inits |-> criteria_inits + 1, result |-> h]

\* The record of a dispatch: what GENERATED_call was given and gave back.
CallRecord(token, stk, h) ==
    [call_identifier |-> token.call_identifier, stack |-> stk,
     match |-> current_match, inits |-> criteria_inits, result |-> h]

\* The handled token took the driver from stack stk (after the push) to ns;
\* reinit tells whether cmd_criteria_init follows.
Handle(token, it, step, h, stk, ns, reinit) ==
    /\ pc' = "loop"
    /\ walk' = it.walk
    /\ state' = ns.state
    /\ stack' = ns.stack
    /\ command_output' =
         [command_output EXCEPT !.needs_tree_render = ns.needs_tree_render]
    /\ current_match' = IF reinit THEN MatchInit ELSE ns.match
    /\ criteria_inits' = IF reinit THEN criteria_inits + 1 ELSE criteria_inits
    /\ calls' = IF ns.called THEN Append(calls, CallRecord(token, stk, h)) ELSE calls
    /\ last' = step
    /\ UNCHANGED <<tokens, input, gen, result, yajl, errpos>>

\* The push of the handled token, then next_state.
PushAndTransit(kind, token, it, ch, h, stk) ==
    Handle(token, it, StepRecord(kind, it, token, ch), h, stk,
           next_state(token, stk, command_output.needs_tree_render, current_match, h),
           kind = "end" /\ EndReinits(ch))

HandleToken(kind, token, it, ch) ==
    /\ TokenKind(token) = kind
    /\ IF it.push.type # "none" /\ StackFull(stack)
       THEN StackFullExit(StepRecord(kind, it, token, ch))
       ELSE \E h \in HandlerOutcomes(tokens, current_match) :
               PushAndTransit(kind, token, it, ch, h,
                              Push(stack, token.identifier, it.push))

HandleIteration(kind, it) ==
    /\ it.handled
    /\ HandleToken(kind, tokens[state][it.c], it, At(input, it.at))

\* One iteration of the driver loop in which a token of the given kind is
\* handled: the push, next_state (with the handler it may call), and for an
\* end token cmd_criteria_init and walk++.  A push on a full stack exits.
MatchLiteral ==
    /\ pc = "loop"
    /\ walk <= strlen(input)
    /\ HandleIteration("literal", Iteration(tokens, input, state, walk))

MatchNumber ==
    /\ pc = "loop"
    /\ walk <= strlen(input)
    /\ HandleIteration("number", Iteration(tokens, input, state, walk))

MatchString ==
    /\ pc = "loop"
    /\ walk <= strlen(input)
    /\ HandleIteration("string", Iteration(tokens, input, state, walk))

MatchEnd ==
    /\ pc = "loop"
    /\ walk <= strlen(input)
    /\ HandleIteration("end", Iteration(tokens, input, state, walk))

AfterError_nobreak == "loop"

\* Where the driver goes after a failed iteration: the break out of the loop.
AfterError == "failed"

\* The failure leaves the captures on the stack.
StackAfterError_keep(stk) == stk

\* The stack after a failed iteration.
StackAfterError(stk) == clear_stack(stk)

\* The result is marked, the message is left out.
FailedResult_nomessage(res, msg) == [res EXCEPT !.parse_error = TRUE]

\* result->parse_error = true; result->error_message = errormessage;
FailedResult(res, msg) == [res EXCEPT !.parse_error = TRUE, !.error_message = msg]

\* No token was handled and walk was left at w.
Fail(w, msg, position) ==
    /\ walk' = w
    /\ result' = FailedResult(result, msg)
    /\ errpos' = position
    /\ yajl' = y(gen, yajl, ErrorReply(msg, input, position))
    /\ stack' = StackAfterError(stack)
    /\ pc' = AfterError
    /\ last' = [NoStep EXCEPT !.kind = "error", !.at = w, !.ch = At(input, w),
                              !.from = state]
    /\ UNCHANGED <<tokens, input, gen, state, current_match, command_output,
                   criteria_inits, calls>>

FailIteration(it) ==
    /\ ~it.handled
    /\ Fail(it.walk, ErrorMessage(tokens[state]), Position(input, it.walk))

\* One iteration of the driver loop in which no token is handled.
SyntaxError ==
    /\ pc = "loop"
    /\ walk <= strlen(input)
    /\ FailIteration(Iteration(tokens, input, state, walk))

\* The flag of the handlers is copied after a call without failure alone.
ReturnedResult_onsuccess(res, out) ==
    IF res.parse_error THEN res
    ELSE [res EXCEPT !.needs_tree_render = out.needs_tree_render]

\* result->needs_tree_render = command_output.needs_tree_render
ReturnedResult(res, out) == [res EXCEPT !.needs_tree_render = out.needs_tree_render]

\* The end of parse_command: the loop is left, the result is returned.
Return ==
    /\ \/ pc = "failed"
       \/ pc = "loop" /\ walk > strlen(input)
    /\ pc' = "returned"
    /\ yajl' = y(gen, yajl, <<Ev("array_close", <<>>)>>)
    /\ result' = ReturnedResult(result, command_output)
    /\ last' = [NoStep EXCEPT !.kind = "return", !.from = state]
    /\ UNCHANGED <<tokens, input, gen, walk, state, stack, current_match,
                   command_output, errpos, criteria_inits, calls>>

\* The caller is done with the result: command_result_free.  Only the
\* statics of the parser outlive the call.
CommandResultFree ==
    /\ pc = "returned"
    /\ pc' = "idle"
    /\ input' = <<>>
    /\ gen' = NULL
    /\ walk' = 0
    /\ result' = NoResult
    /\ yajl' = <<>>
    /\ errpos' = NULLSTR
    /\ criteria_inits' = 0
    /\ calls' = <<>>
    /\ last' = NoStep
    /\ UNCHANGED <<tokens, state, stack, current_match, command_output>>

Next ==
    \/ \E in \in Inputs, g \in Generators : ParseCommand(in, g)
    \/ MatchLiteral
    \/ MatchNumber
    \/ MatchString
    \/ MatchEnd
    \/ SyntaxError
    \/ Return
    \/ CommandResultFree

Spec == Init /\ [][Next]_vars

-----------------------------------------------------------------------------
(* The matchers on their own: one parse_command call from the initial      *)
(* statics, on a command word followed by at most MaxPieces pieces of      *)
(* argument text, so that the number, string, word and literal tokens meet *)
(* every mix of quotes, backslashes, delimiters, digits and signs.         *)

MaxPieces == 3

StringPieces == { <<"\"">>, <<"\\">>, <<"\\", "\"">>, <<"\\", "a">>, <<",">>, <<" ">> }
WordPieces == { <<"\"">>, <<"\\", "\"">>, <<"a">>, <<",">>, <<" ">>, <<"]">> }
NumberPieces == { <<"4">>, <<"-">>, <<"\f">>, <<",">> }

Arguments(pieces, n) ==
    UNION {{Flatten(arg) : arg \in [1..k -> pieces]} : k \in 0..n}

\* The command words: a string follows "exec", a word "Move", a number
\* "Move Left"; the table spells the literals in lower case.
S_Move == <<"M">> \o Tail(S_move)
S_Left == <<"L">> \o Tail(S_left)

\* LONG_MAX + 1
S_overflow == <<"9", "2", "2", "3", "3", "7", "2", "0", "3", "6", "8", "5", "4", "7",
                "7", "5", "8", "0", "8">>

MatcherInputs ==
    {S_exec \o <<" ">> \o arg : arg \in Arguments(StringPieces, MaxPieces)}
        \cup {S_Move \o <<" ">> \o arg : arg \in Arguments(WordPieces, MaxPieces)}
        \cup {S_Move \o <<" ">> \o S_Left \o <<" ">> \o arg :
                 arg \in Arguments(NumberPieces, MaxPieces) \cup {S_overflow}}

\* The call is made without a generator.
MatcherCall == \E in \in MatcherInputs : ParseCommand(in, NULL)

MatcherNext ==
    \/ MatcherCall
    \/ MatchLiteral
    \/ MatchNumber
    \/ MatchString
    \/ MatchEnd
    \/ SyntaxError
    \/ Return

MatcherSpec == Init /\ [][MatcherNext]_vars

-----------------------------------------------------------------------------
(* Scenarios: the commands "workspace 4", "mve left", "resize grow up 10   *)
(* px or 20 ppt", "move left, move right" and "move left; move right",     *)
(* each with a table that has the states it runs through, next to the      *)
(* inputs of the table above.                                              *)

S_workspace == <<"w", "o", "r", "k", "s", "p", "a", "c", "e">>
S_resize == <<"r", "e", "s", "i", "z", "e">>
S_grow == <<"g", "r", "o", "w">>
S_up == <<"u", "p">>
S_px == <<"p", "x">>
S_or == <<"o", "r">>
S_ppt == <<"p", "p", "t">>

\* 'workspace' without identifier, then a number under "workspace" that
\* calls.
WorkspaceTokens ==
    [INITIAL |->
        << Token(S_end, NULL, "INITIAL", 0),
           Token(Lit(S_workspace), NULL, "WORKSPACE", 0) >>,
     WORKSPACE |->
        << Token(S_number, "workspace", CALL, 1) >>]

\* INITIAL has the literal 'move' and nothing else; the direction after it
\* ends the command without a call.
MoveOnlyTokens ==
    [INITIAL |->
        << Token(Lit(S_move), NULL, "MOVE", 0) >>,
     MOVE |->
        << Token(Lit(S_left), "direction", "INITIAL", 0) >>]

\* resize grow up [<px> [px] [or <ppt> [ppt]]], as in commands.spec
ResizeTokens ==
    [INITIAL |->
        << Token(S_end, NULL, "INITIAL", 0),
           Token(Lit(S_resize), NULL, "RESIZE", 0) >>,
     RESIZE |->
        << Token(Lit(S_grow), "way", "RESIZE_DIRECTION", 0) >>,
     RESIZE_DIRECTION |->
        << Token(Lit(S_up), "direction", "RESIZE_PX", 0) >>,
     RESIZE_PX |->
        << Token(S_number, "resize_px", "RESIZE_TILING", 0),
           Token(S_end, NULL, CALL, 1) >>,
     RESIZE_TILING |->
        << Token(Lit(S_px), NULL, "RESIZE_TILING", 0),
           Token(Lit(S_or), NULL, "RESIZE_TILING_OR", 0),
           Token(S_end, NULL, CALL, 1) >>,
     RESIZE_TILING_OR |->
        << Token(S_number, "resize_ppt", "RESIZE_TILING_FINAL", 0) >>,
     RESIZE_TILING_FINAL |->
        << Token(Lit(S_ppt), NULL, "RESIZE_TILING_FINAL", 0),
           Token(S_end, NULL, CALL, 1) >>]

ScenarioTables == {CommandTokens, WorkspaceTokens, MoveOnlyTokens, ResizeTokens}

I_workspace4 == <<"w", "o", "r", "k", "s", "p", "a", "c", "e", " ", "4">>
I_mveLeft == <<"m", "v", "e", " ", "l", "e", "f", "t">>
I_moveLeft == <<"m", "o", "v", "e", " ", "l", "e", "f", "t">>
I_resize == S_resize \o <<" ">> \o S_grow \o <<" ">> \o S_up \o
            <<" ", "1", "0", " ", "p", "x", " ", "o", "r", " ", "2", "0", " ", "p", "p", "t">>
I_resizePx == S_resize \o <<" ">> \o S_grow \o <<" ">> \o S_up \o <<" ", "1", "0">>
I_moveComma == <<"m", "o", "v", "e", " ", "l", "e", "f", "t", ",", " ", "m", "o", "v", "e", " ", "r", "i", "g", "h", "t">>
I_moveSemicolon == <<"m", "o", "v", "e", " ", "l", "e", "f", "t", ";", " ", "m", "o", "v", "e", " ", "r", "i", "g", "h", "t">>
I_moveleft == S_move \o S_left

\* The inputs a table is called with.
ScenarioInputs(tab) ==
    IF tab = CommandTokens THEN Inputs \cup {I_moveComma, I_moveSemicolon, I_moveleft}
    ELSE IF tab = WorkspaceTokens THEN {<<>>, I_workspace4, S_workspace}
    ELSE IF tab = MoveOnlyTokens THEN {I_mveLeft, I_moveLeft}
    ELSE {I_resize, I_resizePx}

ScenarioInit ==
    /\ tokens \in ScenarioTables
    /\ pc = "idle"
    /\ input = <<>>
    /\ gen = NULL
    /\ walk = 0
    /\ state = "INITIAL"
    /\ stack = ZeroStack
    /\ current_match = MatchInit
    /\ command_output = [json_gen |-> NULL, needs_tree_render |-> FALSE]
    /\ result = NoResult
    /\ yajl = <<>>
    /\ errpos = NULLSTR
    /\ criteria_inits = 0
    /\ calls = <<>>
    /\ last = NoStep

ScenarioCall ==
    \E in \in ScenarioInputs(tokens), g \in Generators : ParseCommand(in, g)

ScenarioNext ==
    \/ ScenarioCall
    \/ MatchLiteral
    \/ MatchNumber
    \/ MatchString
    \/ MatchEnd
    \/ SyntaxError
    \/ Return
    \/ CommandResultFree

ScenarioSpec == ScenarioInit /\ [][ScenarioNext]_vars


-----------------------------------------------------------------------------
(* Properties *)

\* The step taken is an iteration of the driver loop that handled a token
\* (described by last').
TokenHandled == pc = "loop" /\ pc' = "loop"

\* The step taken is an iteration of the driver loop that handled no token.
IterationFailed == pc = "loop" /\ pc' = "failed"

\* The step taken is the head of parse_command.
CallStarted == pc = "idle" /\ pc' = "loop"

\* The end token handled by the step matched at the character ch.
EndHandledAt(ch) == TokenHandled /\ last'.kind = "end" /\ last'.ch = ch

\* C1: an end token that matches at a comma does not call cmd_criteria_init;
\* one that matches at a semicolon or at the end of the input calls it once
\* and leaves the selection context initialized; and the head of every
\* parse_command call initializes it once, before any token is matched.
C1_CriteriaInit ==
    [][ /\ EndHandledAt(",") => criteria_inits' = criteria_inits
        /\ (EndHandledAt(";") \/ EndHandledAt(NUL)) =>
              criteria_inits' = criteria_inits + 1 /\ current_match' = MatchInit
        /\ CallStarted =>
              /\ criteria_inits' = 1
              /\ current_match' = MatchInit
              /\ walk' = 0 /\ calls' = <<>> /\ last'.kind = "start"
      ]_vars

\* An end token was handled at a comma, its handler left criteria in the
\* selection context, and the context was not initialized again.
C1_Witness ==
    /\ pc = "loop"
    /\ last.kind = "end" /\ last.ch = "," /\ last.called
    /\ criteria_inits = 1
    /\ current_match = MatchCriteria

\* C2: when no token of the current state is handled, the call is marked
\* parse_error, the loop is left at once, and nothing but the return follows:
\* no token is tried, the state does not change, no handler is called.
C2_FailureStops ==
    [][ /\ IterationFailed =>
              /\ ~Iteration(tokens, input, state, walk).handled
              /\ result'.parse_error
              /\ state' = state /\ calls' = calls
        /\ (pc = "loop" /\ walk <= strlen(input)
              /\ ~Iteration(tokens, input, state, walk).handled) => pc' = "failed"
        /\ pc = "failed" =>
              /\ pc' = "returned"
              /\ result'.parse_error
              /\ state' = state /\ calls' = calls /\ walk' = walk /\ stack' = stack
              /\ current_match' = current_match
      ]_vars

\* A call failed after a dispatch, with input left that was not parsed.
C2_Witness ==
    /\ pc = "failed"
    /\ result.parse_error
    /\ Len(calls) = 1
    /\ walk < strlen(input)

\* C3: the token handled is the first of the state's list that matches where
\* the iteration started, and a failed iteration takes nothing back: the
\* state the earlier tokens led to, the offset and the dispatches made stay.
C3_FirstMatchNoBacktracking ==
    [][ /\ TokenHandled =>
              /\ TryToken(input, tokens[state][last'.c], last'.at).handled
              /\ \A j \in 1..(last'.c - 1) :
                    ~TryToken(input, tokens[state][j],
                              SkipWhitespace(input, walk)).handled
        /\ IterationFailed =>
              state' = state /\ walk' >= walk /\ calls' = calls
      ]_vars

\* "exec --no-startup-id" failed in state EXEC at the end of the input: the
\* literal was taken though the string token after it matched too, and the
\* failure that followed did not make the parser try the string token.
C3_Witness ==
    /\ pc = "failed"
    /\ state = "EXEC"
    /\ input = S_exec \o <<" ">> \o S_nosn
    /\ walk = strlen(input)
    /\ TryToken(input, tokens["EXEC"][1], strlen(S_exec) + 1).handled
    /\ TryToken(input, tokens["EXEC"][2], strlen(S_exec) + 1).handled

\* The stack the handler dispatched by the step was given.
StackSeen == calls'[Len(calls')].stack

\* C4: a token whose next_state is __CALL has its handler called with every
\* slot that was occupied before the token, unchanged, and with the token's
\* own capture in one more slot; captures stay on the stack across the
\* transitions that neither call nor lead to INITIAL; and after the call the
\* stack is empty whatever state the handler handed back.
C4_CallSeesCapturesThenClears ==
    [][ /\ (TokenHandled /\ last'.called) =>
              /\ Len(calls') = Len(calls) + 1
              /\ \A c \in Occupied(stack) : StackSeen[c] = stack[c]
              /\ last'.pushed =>
                    \E c \in Occupied(StackSeen) \ Occupied(stack) :
                        StackSeen[c].identifier = tokens[state][last'.c].identifier
              /\ Cardinality(Occupied(StackSeen)) =
                    Cardinality(Occupied(stack)) + (IF last'.pushed THEN 1 ELSE 0)
              /\ Occupied(stack') = {}
        /\ (TokenHandled /\ ~last'.called /\ state' # "INITIAL") =>
              \A c \in Occupied(stack) : stack'[c] = stack[c]
      ]_vars

\* A number token with a capture triggered a call: the handler saw the
\* earlier capture and the number, handed back a state other than INITIAL,
\* and the stack is empty.
C4_Witness ==
    /\ pc = "loop"
    /\ last.kind = "number" /\ last.called /\ last.pushed
    /\ Cardinality(Occupied(calls[Len(calls)].stack)) = 2
    /\ get_string(calls[Len(calls)].stack, "direction") = S_left
    /\ get_long(calls[Len(calls)].stack, "pixels") = 4
    /\ state # "INITIAL"
    /\ Occupied(stack) = {}

\* Some handler dispatched in this call asked for a tree render.
RenderRequested == \E i \in 1..Len(calls) : calls[i].result.needs_tree_render

\* C5: during a call command_output.needs_tree_render is the OR of the flags
\* the handlers dispatched so far handed back (so it is false before the
\* first dispatch and stays true once a handler set it), and the result
\* returned carries that OR.
C5_TreeRenderIsOr ==
    /\ pc \in {"loop", "failed", "aborted"} =>
          command_output.needs_tree_render = RenderRequested
    /\ pc = "returned" => result.needs_tree_render = RenderRequested

\* A call returned after two dispatches, the first asking for a render and
\* the second not.
C5_Witness ==
    /\ pc = "returned"
    /\ Len(calls) = 2
    /\ calls[1].result.needs_tree_render
    /\ ~calls[2].result.needs_tree_render
    /\ result.needs_tree_render

\* C6: the driver loop of every parse_command call starts in state INITIAL.
C6_StartsInInitial ==
    (pc = "loop" /\ last.kind = "start") => state = "INITIAL"

\* A call starts after one that failed in state MOVE_DIRECTION (last.from is
\* the state the parser was left in).
C6_Witness ==
    /\ pc = "loop" /\ last.kind = "start"
    /\ last.from = "MOVE_DIRECTION"
    /\ state = "INITIAL"

\* The end token handled by the step consumed a command boundary.
BoundaryConsumed == EndHandledAt(";") \/ EndHandledAt(NUL)

\* C7 as claimed: after an end token matched at a semicolon or at the end of
\* the input, the state is INITIAL.
C7_BoundaryLeavesInitial ==
    (pc = "loop" /\ last.kind = "end" /\ last.ch \in {";", NUL}) => state = "INITIAL"

\* C7 amended: after an end token matched at a semicolon or at the end of
\* the input, the state is the token's next_state, or, when that is __CALL,
\* the state the handler handed back.
C7_BoundaryFollowsTable ==
    [][ BoundaryConsumed =>
            state' = IF tokens[state][last'.c].next_state = CALL
                     THEN calls'[Len(calls')].result.next_state
                     ELSE tokens[state][last'.c].next_state
      ]_vars

\* An end token matched at a semicolon, its handler handed back EXEC, and
\* the parser is in state EXEC.
C7_Witness ==
    /\ pc = "loop"
    /\ last.kind = "end" /\ last.ch = ";" /\ last.called
    /\ calls[Len(calls)].result.next_state = "EXEC"
    /\ state = "EXEC"

\* C8 as claimed: no two occupied slots of the stack have the same
\* identifier.
C8_UniqueIdentifiers ==
    \A c, d \in Occupied(stack) :
        c # d => stack[c].identifier # stack[d].identifier

\* The stack after the push of the step: what the handler saw, or the stack
\* the transition left (before is returned when the transition cleared it).
StackPushed(before) ==
    IF last'.called THEN StackSeen
    ELSE IF state' # "INITIAL" THEN stack'
    ELSE before

\* after is before with the capture push stored under identifier in a slot
\* that was free, every other slot as it was.
StoredInFreeSlot(before, after, identifier, push) ==
    \E c \in Slots \ Occupied(before) :
        /\ after[c].identifier = identifier
        /\ after[c].type = push.type
        /\ after[c].str = push.str
        /\ after[c].num = push.num
        /\ \A d \in Slots \ {c} : after[d] = before[d]

\* C9: a push on a stack with all 10 slots occupied ends the process and
\* leaves the stack as it is; a push on a stack with a free slot stores the
\* capture in a free slot and leaves every other slot as it is.
C9_PushFullOrFree ==
    [][ /\ (pc = "loop" /\ pc' = "aborted") =>
              StackFull(stack) /\ last'.pushed /\ stack' = stack
        /\ (TokenHandled /\ last'.pushed) =>
              /\ ~StackFull(stack)
              /\ (last'.called \/ state' # "INITIAL") =>
                    StoredInFreeSlot(stack, StackPushed(stack),
                                     tokens[state][last'.c].identifier,
                                     Iteration(tokens, input, state, walk).push)
      ]_vars

\* The process ended on the eleventh identified token of a command, with ten
\* slots occupied.
C9_Witness ==
    /\ pc = "aborted"
    /\ Cardinality(Occupied(stack)) = StackSize
    /\ last.pushed

\* C10 as claimed: a token that does not match leaves walk where it was, so
\* every token of an iteration is tried at the offset the iteration started
\* at (after the whitespace), and a failed iteration leaves walk there.
C10_NoMatchLeavesWalk ==
    [][ /\ TokenHandled => last'.at = SkipWhitespace(input, walk)
        /\ IterationFailed => walk' = SkipWhitespace(input, walk)
      ]_vars

-----------------------------------------------------------------------------
(* The matchers *)

\* The step handled a string or word token, a number token, a literal.
StringHandled == TokenHandled /\ last'.kind = "string"
NumberHandled == TokenHandled /\ last'.kind = "number"
LiteralHandled == TokenHandled /\ last'.kind = "literal"

\* The token the step handled.
HandledToken == tokens[state][last'.c]

StrCapture(str) == [type |-> STACK_STR, str |-> str, num |-> 0]
LongCapture(num) == [type |-> STACK_LONG, str |-> NULLSTR, num |-> num]

\* The step pushed the capture under the identifier of the handled token.
StepCaptured(push) ==
    StoredInFreeSlot(stack, StackPushed(stack), HandledToken.identifier, push)

\* The step left the stack as it was until next_state.
StepCapturedNothing == StackPushed(stack) = stack

\* The text of s at the offsets from..(to - 1).
Text(s, from, to) == SubSeq(s, from + 1, to)

RECURSIVE BackslashesBefore(_, _, _)
\* The number of backslashes in a row that end right before offset i, none
\* of them before offset from.
BackslashesBefore(s, from, i) ==
    IF i > from /\ At(s, i - 1) = "\\"
    THEN 1 + BackslashesBefore(s, from, i - 1)
    ELSE 0

\* The double quotes after the opening one at offset open that no backslash
\* escapes: those with an even number of backslashes in a row before them.
UnescapedQuotes(s, open) ==
    {i \in (open + 1)..(Len(s) - 1) :
        At(s, i) = "\"" /\ BackslashesBefore(s, open + 1, i) % 2 = 0}

\* A well-formed double-quoted value starts at offset open.
WellFormedQuoted(s, open) == At(s, open) = "\"" /\ UnescapedQuotes(s, open) # {}

\* Its matching closing quote.
ClosingQuote(s, open) ==
    CHOOSE i \in UnescapedQuotes(s, open) : \A j \in UnescapedQuotes(s, open) : i <= j

RECURSIVE Decoded(_)
\* The text t with each backslash-quote pair replaced by a double quote, each
\* backslash-backslash pair by a backslash, any other backslash copied with
\* the character after it.
Decoded(t) ==
    IF t = <<>> THEN <<>>
    ELSE IF t[1] = "\\" /\ Len(t) >= 2
    THEN (IF t[2] \in {"\"", "\\"} THEN <<t[2]>> ELSE <<t[1], t[2]>>)
            \o Decoded(SubSeq(t, 3, Len(t)))
    ELSE <<t[1]>> \o Decoded(Tail(t))

\* C11: a string or word token handled on a well-formed double-quoted value
\* captures the text between the opening quote and the first quote no
\* backslash escapes, with \" turned into " and \\ into \ and every other
\* backslash kept with the character after it.
C11_QuotedDecoding ==
    [][ (StringHandled /\ WellFormedQuoted(input, last'.at)) =>
            StepCaptured(StrCapture(
                Decoded(Text(input, last'.at + 1, ClosingQuote(input, last'.at)))))
      ]_vars

\* A quoted value with an escaped quote or backslash in it was captured: the
\* capture is shorter than the text between the quotes, which has a
\* backslash in it.
C11_Witness ==
    /\ pc = "loop" /\ last.kind = "string" /\ last.called
    /\ WellFormedQuoted(input, last.at)
    /\ ClosingQuote(input, last.at) > last.at + 2
    /\ \E c \in Occupied(calls[Len(calls)].stack) :
          /\ calls[Len(calls)].stack[c].str \in {<<"\"">>, <<"\\">>}
          /\ Len(calls[Len(calls)].stack[c].str)
                < ClosingQuote(input, last.at) - last.at - 1

\* C12 as claimed: a string or word token handled on a value that does not
\* start with a double quote captures the consumed text character for
\* character, backslashes included.
C12_UnquotedVerbatim ==
    [][ (StringHandled /\ At(input, last'.at) # "\"") =>
            StepCaptured(StrCapture(Text(input, last'.at, walk')))
      ]_vars

\* The iteration about to run tries a string or word token at offset w: the
\* tokens before it in the state's list do not match there.
StringTokenTriedAt(w) ==
    /\ pc = "loop" /\ walk <= strlen(input)
    /\ w = SkipWhitespace(input, walk)
    /\ \E c \in 1..Len(tokens[state]) :
          /\ IsString(tokens[state][c])
          /\ \A j \in 1..(c - 1) : ~TryToken(input, tokens[state][j], w).handled

\* C13 as claimed: a string or word token never matches an unquoted value of
\* length zero, and it matches two adjacent double quotes, capturing the
\* string of length zero and leaving walk behind both quotes.
C13_EmptyQuotedMatches ==
    [][ /\ (StringHandled /\ At(input, last'.at) # "\"") => walk' > last'.at
        /\ \A w \in 0..strlen(input) :
              (StringTokenTriedAt(w) /\ At(input, w) = "\"" /\ At(input, w + 1) = "\"") =>
                  /\ StringHandled
                  /\ last'.at = w /\ walk' = w + 2
                  /\ StepCaptured(StrCapture(<<>>))
      ]_vars

\* The step's value runs from its first offset up to the first offset whose
\* character is in delims.
ConsumedUpTo(delims) ==
    /\ At(input, walk') \in delims
    /\ \A i \in last'.at..(walk' - 1) : At(input, i) \notin delims

\* C14: an unquoted value handled by a string token ends before the first
\* comma, semicolon, newline, carriage return or the end of the input; one
\* handled by a word token ends before the first of these or space, tab or
\* closing square bracket; a well-formed quoted value ends with its matching
\* closing quote whatever is between the quotes, walk is left behind that
\* quote, and the capture has nothing but what is between the quotes.
C14_ValueExtent ==
    [][ /\ (StringHandled /\ At(input, last'.at) # "\"" /\ HandledToken.name = S_string) =>
              ConsumedUpTo({",", ";", "\n", "\r", NUL})
        /\ (StringHandled /\ At(input, last'.at) # "\"" /\ HandledToken.name = S_word) =>
              ConsumedUpTo({",", ";", "\n", "\r", NUL, " ", "\t", "]"})
        /\ (StringHandled /\ WellFormedQuoted(input, last'.at)) =>
              /\ walk' = ClosingQuote(input, last'.at) + 1
              /\ \E c \in Occupied(StackPushed(stack)) \ Occupied(stack) :
                    Len(StackPushed(stack)[c].str)
                        <= ClosingQuote(input, last'.at) - last'.at - 1
      ]_vars

\* A string token took an unquoted value with a space in it up to a comma.
C14_Witness ==
    /\ pc = "loop" /\ last.kind = "string" /\ last.from = "EXEC"
    /\ At(input, last.at) # "\""
    /\ At(input, walk) = ","
    /\ \E i \in last.at..(walk - 1) : At(input, i) = " "

\* The iteration about to run tries a number token at offset w.
NumberTokenTriedAt(w) ==
    /\ pc = "loop" /\ walk <= strlen(input)
    /\ w = SkipWhitespace(input, walk)
    /\ \E c \in 1..Len(tokens[state]) :
          /\ IsNumber(tokens[state][c])
          /\ \A j \in 1..(c - 1) : ~TryToken(input, tokens[state][j], w).handled

\* The text of s from offset w up to e is a decimal number: digits from b up
\* to e, with no digit after them.  With lead, white space may come first
\* (up to a) and one sign after it (up to b); without, the digits start at w.
NumberShape(s, w, a, b, e, lead) ==
    /\ w <= a /\ a <= b /\ b <= a + 1 /\ b < e
    /\ ~lead => (a = w /\ b = w)
    /\ \A i \in w..(a - 1) : At(s, i) \in {" ", "\t", "\n", "\r", "\f"}
    /\ b = a + 1 => At(s, a) \in {"-", "+"}
    /\ \A i \in b..(e - 1) : isdigit(At(s, i))
    /\ ~isdigit(At(s, e))

RECURSIVE Decimal(_)
\* The value of a text of decimal digits.
Decimal(t) ==
    IF t = <<>> THEN 0
    ELSE 10 * Decimal(SubSeq(t, 1, Len(t) - 1)) + DigitVal(t[Len(t)])

\* The number of that shape does not fit a long.
Overflows(s, a, b, e) ==
    DigitsGreater(DigitsFrom(s, b, e),
                  IF b = a + 1 /\ At(s, a) = "-" THEN LongMinDigits ELSE LongMaxDigits)

NumberValue(s, a, b, e) ==
    IF b = a + 1 /\ At(s, a) = "-" THEN 0 - Decimal(Text(s, b, e))
    ELSE Decimal(Text(s, b, e))

\* A number that fits a long starts at offset w of s.
Converts(s, w, lead) ==
    \E a, b, e \in w..(Len(s) + 1) :
        NumberShape(s, w, a, b, e, lead) /\ ~Overflows(s, a, b, e)

\* What a step does about the number token: handled, it took a number that
\* fits a long, left walk behind its last digit and pushed its value; tried
\* where no such number starts, it is not handled, and the iteration goes on
\* from the same offset with the state and the stack as they were.
NumberStep(lead) ==
    /\ NumberHandled =>
          \E a, b \in last'.at..walk' :
              /\ NumberShape(input, last'.at, a, b, walk', lead)
              /\ ~Overflows(input, a, b, walk')
              /\ StepCaptured(LongCapture(NumberValue(input, a, b, walk')))
    /\ \A w \in 0..strlen(input) :
          (NumberTokenTriedAt(w) /\ ~Converts(input, w, lead)) =>
              /\ ~NumberHandled
              /\ TokenHandled => (last'.at = w /\ (~last'.pushed => StepCapturedNothing))
              /\ IterationFailed => (walk' = w /\ state' = state)

\* C15 as claimed: the number token matches only the digits that start at
\* the offset, as many as there are.
C15_DecimalPrefix == [][NumberStep(FALSE)]_vars

\* C15 amended: the number token matches what strtol converts: white space,
\* then an optional sign, then as many digits as there are, if the value
\* fits a long; walk is left behind the last digit and the signed value is
\* pushed; where nothing converts or the value does not fit, the token does
\* not match, pushes nothing, and leaves walk and the state as they are.
C15_SignedDecimalPrefix == [][NumberStep(TRUE)]_vars

\* A number with a sign was captured.
C15_Witness ==
    /\ pc = "loop" /\ last.kind = "number" /\ last.called /\ last.pushed
    /\ At(input, last.at) = "-"
    /\ get_long(calls[Len(calls)].stack, "pixels") = 0 - 4

\* The characters p and q are the same but for the case of a letter.
SameLetter(p, q) ==
    p = q \/ \E i \in 1..26 : {p, q} = {UpperCase[i], LowerCase[i]}

\* s has the text lit at offset w, whatever the case of the letters.
StartsWith(s, w, lit) ==
    \A i \in 1..Len(lit) : SameLetter(At(s, w + i - 1), lit[i])

\* The text of a literal token as the table has it, without the quote that
\* marks the token as a literal.
LiteralText(token) == SubSeq(token.name, 2, Len(token.name))

\* The iteration about to run gets to token c of the state's list at offset
\* w: no token before it matches there.
TokenTriedAt(c, w) ==
    /\ pc = "loop" /\ walk <= strlen(input)
    /\ w = SkipWhitespace(input, walk)
    /\ c \in 1..Len(tokens[state])
    /\ \A j \in 1..(c - 1) : ~TryToken(input, tokens[state][j], w).handled

\* C16: a literal token the iteration gets to is handled if and only if the
\* input has its text at the offset, whatever the case of the letters; walk
\* then moves on by the length of the text, and what is pushed under the
\* token's identifier is the text of the table, nothing when the token has
\* no identifier.
C16_LiteralMatch ==
    [][ \A c \in 1..Len(tokens[state]), w \in 0..strlen(input) :
          (TokenTriedAt(c, w) /\ IsLiteral(tokens[state][c])) =>
              /\ (LiteralHandled /\ last'.c = c)
                    <=> StartsWith(input, w, LiteralText(tokens[state][c]))
              /\ (LiteralHandled /\ last'.c = c) =>
                    /\ last'.at = w
                    /\ walk' = w + Len(LiteralText(tokens[state][c]))
                    /\ IF tokens[state][c].identifier # NULL
                       THEN StepCaptured(StrCapture(LiteralText(tokens[state][c])))
                       ELSE ~last'.pushed /\ StepCapturedNothing
      ]_vars

\* The literal 'left' was handled on the input "Left" and the stack has the
\* table's spelling under the token's identifier.
C16_Witness ==
    /\ pc = "loop" /\ last.kind = "literal" /\ last.pushed
    /\ Text(input, last.at, walk) = S_Left
    /\ get_string(stack, "direction") = S_left

-----------------------------------------------------------------------------
(* Failures *)

\* A token as the message shows it.
Rendered(token) ==
    IF token.name[1] = "'" THEN <<"'">> \o LiteralText(token) \o <<"'">>
    ELSE <<"<">> \o token.name \o <<">">>

RECURSIVE Joined(_, _)
\* The first n tokens of the list as the message shows them, ", " between.
Joined(list, n) ==
    IF n = 0 THEN <<>>
    ELSE IF n = 1 THEN Rendered(list[1])
    ELSE Joined(list, n - 1) \o <<",", " ">> \o Rendered(list[n])

\* The message of a failure in state st.
ExpectedMessage(st) == S_expected \o Joined(tokens[st], Len(tokens[st]))

\* C17: the message of a failed iteration is "Expected one of these tokens: "
\* and then every token of the state in the order of the table, a literal
\* in single quotes, any other token in angle brackets, ", " between them
\* and nothing after the last; the result returned has that message.
C17_ErrorMessage ==
    [][ /\ IterationFailed => result'.error_message = ExpectedMessage(state)
        /\ (pc = "failed" /\ pc' = "returned") =>
              result'.error_message = ExpectedMessage(state)
      ]_vars

\* A call failed in state INITIAL with the message
\* "Expected one of these tokens: <end>, 'move', 'exec', 'nop'".
C17_Witness ==
    /\ pc = "returned" /\ result.parse_error /\ state = "INITIAL"
    /\ result.error_message =
          S_expected \o <<"<", "e", "n", "d", ">", ",", " ", "'", "m", "o", "v", "e",
                          "'", ",", " ", "'", "e", "x", "e", "c", "'", ",", " ",
                          "'", "n", "o", "p", "'">>

\* C18 as claimed: the position line of a failed iteration is as long as the
\* input, with a space at every offset before the one the tokens were tried
\* at (the offset after the white space) and '^' from there on.
C18_CaretLine ==
    [][ IterationFailed =>
            /\ Len(errpos') = Len(input)
            /\ \A i \in 0..(Len(input) - 1) :
                  errpos'[i + 1] = IF i >= SkipWhitespace(input, walk) THEN "^" ELSE " "
      ]_vars

\* A call has returned a result marked as a parse error.
FailureReturned == pc = "returned" /\ result.parse_error

\* The members of a CommandResult that parse_command and
\* command_result_free use.
ResultMembers == {"parse_error", "error_message", "needs_tree_render"}

\* C19 as claimed: the result returned after a failure has the message and,
\* in one more member, the position line.
C19_ResultHasCaretLine ==
    FailureReturned =>
        /\ result.error_message = ExpectedMessage(state)
        /\ \E member \in DOMAIN result \ ResultMembers : result[member] = errpos

\* C19 amended: the result returned after a failure has the message and the
\* parse_error mark and no position line; the position line is written to
\* the generator, if there is one, and nowhere else.
C19_ResultHasMessageOnly ==
    FailureReturned =>
        /\ result.error_message = ExpectedMessage(state)
        /\ DOMAIN result = ResultMembers
        /\ errpos # NULLSTR /\ result.error_message # errpos
        /\ (gen # NULL) <=> (\E i \in 1..Len(yajl) : yajl[i] = Ev("string", errpos))

\* A call without a generator returned a failure: the position line computed
\* is neither in the result nor in a reply.
C19_Witness ==
    /\ FailureReturned
    /\ gen = NULL /\ yajl = <<>>
    /\ Len(errpos) = Len(input) /\ \E i \in 1..Len(errpos) : errpos[i] = "^"

\* The failure map of a reply.
FailureMap(msg, text, position) ==
    << [ev |-> "map_open", arg |-> <<>>],
       [ev |-> "string", arg |-> <<"success">>], [ev |-> "bool", arg |-> <<"false">>],
       [ev |-> "string", arg |-> <<"parse_error">>], [ev |-> "bool", arg |-> <<"true">>],
       [ev |-> "string", arg |-> <<"error">>], [ev |-> "string", arg |-> msg],
       [ev |-> "string", arg |-> <<"input">>], [ev |-> "string", arg |-> text],
       [ev |-> "string", arg |-> <<"errorposition">>], [ev |-> "string", arg |-> position],
       [ev |-> "map_close", arg |-> <<>>] >>

\* C20: a call that failed has written to its generator the opening of the
\* array, one map with success = false, parse_error = true, the message, the
\* input and the position line, and the closing of the array; without a
\* generator it has written nothing; and the result is the same in both
\* cases: the mark, the message, and the render flag of the handlers.
C20_FailureReply ==
    FailureReturned =>
        /\ gen # NULL =>
              yajl = <<[ev |-> "array_open", arg |-> <<>>]>>
                        \o FailureMap(result.error_message, input, errpos)
                        \o <<[ev |-> "array_close", arg |-> <<>>]>>
        /\ gen = NULL => yajl = <<>>
        /\ result = [parse_error |-> TRUE,
                     error_message |-> ExpectedMessage(state),
                     needs_tree_render |-> RenderRequested]

\* A call with a generator failed after a dispatch.
C20_Witness ==
    /\ FailureReturned
    /\ gen # NULL
    /\ Len(calls) = 1
    /\ Len(yajl) = 14

-----------------------------------------------------------------------------
(* Scenarios *)

\* The state st of the table has an end token.
AcceptsEnd(tab, st) == \E c \in 1..Len(tab[st]) : tab[st][c].name = S_end

\* C21: on the empty input, with an end token in INITIAL, the one iteration
\* of the loop runs at offset 0 = strlen(input) and handles the end token at
\* the 0-byte; the call dispatches nothing and returns without parse_error.
C21_EmptyInput ==
    [][ /\ (pc = "loop" /\ input = <<>> /\ walk = 0 /\ AcceptsEnd(tokens, "INITIAL")) =>
              /\ TokenHandled
              /\ last'.kind = "end" /\ last'.at = strlen(input) /\ last'.ch = NUL
              /\ walk' = 1 /\ calls' = <<>>
        /\ (pc' = "returned" /\ input = <<>> /\ AcceptsEnd(tokens, "INITIAL")) =>
              /\ pc = "loop" /\ last.kind = "end"
              /\ ~result'.parse_error
              /\ calls' = <<>>
      ]_vars

\* The call on the empty input has returned.
C21_Witness ==
    /\ pc = "returned" /\ input = <<>>
    /\ ~result.parse_error /\ calls = <<>>
    /\ walk = 1 /\ criteria_inits = 2

\* The call on the input in with the table tab has returned.
Returned(tab, in) == pc = "returned" /\ tokens = tab /\ input = in

\* The slots of the stack stk that hold a number under the identifier.
LongSlots(stk, identifier) ==
    {c \in Occupied(stk) : stk[c].identifier = identifier /\ stk[c].type = STACK_LONG}

\* C22: "workspace 4", with the literal 'workspace' leading to a number token
\* with the identifier "workspace" that calls, dispatches once, the handler
\* seeing the number 4 under "workspace" and nothing else on the stack, and
\* returns without parse_error.
C22_Workspace4 ==
    Returned(WorkspaceTokens, I_workspace4) =>
        /\ Len(calls) = 1
        /\ Cardinality(Occupied(calls[1].stack)) = 1
        /\ Cardinality(LongSlots(calls[1].stack, "workspace")) = 1
        /\ get_long(calls[1].stack, "workspace") = 4
        /\ ~result.parse_error

\* "workspace 4" has returned after its dispatch.
C22_Witness ==
    /\ Returned(WorkspaceTokens, I_workspace4)
    /\ Len(calls) = 1 /\ calls[1].call_identifier = 1
    /\ walk = strlen(input) + 1

\* "Expected one of these tokens: 'move'"
S_expectedMove == S_expected \o <<"'", "m", "o", "v", "e", "'">>

\* C23: "mve left", with the literal 'move' as the only token of INITIAL,
\* fails at offset 0: parse_error, no dispatch, the message "Expected one of
\* these tokens: 'move'", and a position line of eight carets.
C23_MveLeft ==
    Returned(MoveOnlyTokens, I_mveLeft) =>
        /\ result.parse_error
        /\ calls = <<>>
        /\ result.error_message = S_expectedMove
        /\ errpos = <<"^", "^", "^", "^", "^", "^", "^", "^">>
        /\ walk = 0

\* "mve left" has returned, with a reply that has the message and the
\* position line.
C23_Witness ==
    /\ Returned(MoveOnlyTokens, I_mveLeft)
    /\ result.parse_error
    /\ gen # NULL
    /\ yajl[8] = [ev |-> "string", arg |-> S_expectedMove]
    /\ yajl[12] = [ev |-> "string", arg |-> <<"^", "^", "^", "^", "^", "^", "^", "^">>]

\* C24: "resize grow up 10 px or 20 ppt" dispatches once, and the handler
\* sees both numbers, each in its own slot under its own identifier: 10
\* under "resize_px" and 20 under "resize_ppt", next to the two literals
\* captured before them.
C24_TwoNumbers ==
    Returned(ResizeTokens, I_resize) =>
        /\ Len(calls) = 1
        /\ Cardinality(LongSlots(calls[1].stack, "resize_px")) = 1
        /\ Cardinality(LongSlots(calls[1].stack, "resize_ppt")) = 1
        /\ get_long(calls[1].stack, "resize_px") = 10
        /\ get_long(calls[1].stack, "resize_ppt") = 20
        /\ get_string(calls[1].stack, "way") = S_grow
        /\ get_string(calls[1].stack, "direction") = S_up
        /\ Cardinality(Occupied(calls[1].stack)) = 4
        /\ ~result.parse_error

\* "resize grow up 10 px or 20 ppt" has returned after its dispatch, which
\* the end token at the end of the input made.
C24_Witness ==
    /\ Returned(ResizeTokens, I_resize)
    /\ Len(calls) = 1
    /\ get_long(calls[1].stack, "resize_ppt") = 20
    /\ Occupied(stack) = {}

\* The texts of the literal tokens of the table.
LiteralTexts(tab) ==
    UNION {{LiteralText(tab[st][c]) :
                c \in {d \in 1..Len(tab[st]) : IsLiteral(tab[st][d])}} :
           st \in DOMAIN tab}

\* The first offset of s from w on that has no blank.
AfterBlanks(s, w) ==
    CHOOSE i \in w..Len(s) :
        /\ At(s, i) \notin {" ", "\t", "\r", "\n"}
        /\ \A j \in w..(i - 1) : At(s, j) \in {" ", "\t", "\r", "\n"}

RECURSIVE LiteralsOnly(_, _, _)
\* s from offset w on is literals of the table and white space, nothing else.
LiteralsOnly(tab, s, w) ==
    IF At(s, AfterBlanks(s, w)) = NUL THEN TRUE
    ELSE \E lit \in LiteralTexts(tab) :
            /\ StartsWith(s, AfterBlanks(s, w), lit)
            /\ LiteralsOnly(tab, s, AfterBlanks(s, w) + Len(lit))

\* Token c of the list is a literal that s has at offset w, and the tokens
\* before it are literals that s does not have there, or end tokens.
FirstLiteralAt(list, c, s, w) ==
    /\ IsLiteral(list[c]) /\ StartsWith(s, w, LiteralText(list[c]))
    /\ At(s, w) \notin {",", ";"}
    /\ \A j \in 1..(c - 1) :
          \/ IsLiteral(list[j]) /\ ~StartsWith(s, w, LiteralText(list[j]))
          \/ list[j].name = S_end

RECURSIVE FollowsLiterals(_, _, _, _)
\* s from offset w on follows the table from state st by literals: each is
\* the first token of its state that s has, none of them calls, and the
\* state the last one leads to has an end token.
FollowsLiterals(tab, st, s, w) ==
    IF At(s, AfterBlanks(s, w)) = NUL THEN AcceptsEnd(tab, st)
    ELSE \E c \in 1..Len(tab[st]) :
            /\ FirstLiteralAt(tab[st], c, s, AfterBlanks(s, w))
            /\ tab[st][c].next_state # CALL
            /\ FollowsLiterals(tab, tab[st][c].next_state, s,
                               AfterBlanks(s, w) + Len(LiteralText(tab[st][c])))

\* The whole input was consumed and the call returned without parse_error.
ConsumedWithoutError == ~result.parse_error /\ walk = strlen(input) + 1

-----------------------------------------------------------------------------
(* The outcome of a call as a function of its arguments *)

\* What a call that hands back no failure reports.
NoFailure == [parse_error |-> FALSE, error_message |-> NULLSTR, position |-> NULLSTR]

RECURSIVE Outcome(_, _, _, _, _, _)

\* The iteration it was run in state st; the rest of the call follows.
OutcomeAfter(tab, s, st, it, hs, k) ==
    IF ~it.handled
    THEN [parse_error |-> TRUE, error_message |-> ErrorMessage(tab[st]),
          position |-> Position(s, it.walk)]
    ELSE IF tab[st][it.c].next_state # CALL
    THEN Outcome(tab, s, tab[st][it.c].next_state, it.walk, hs, k)
    ELSE IF k > Len(hs) THEN NoFailure
    ELSE Outcome(tab, s, hs[k], it.walk, hs, k + 1)

\* parse_error, the message and the position line of a call on the input s
\* with the table tab, from state st and offset w, when the handlers hand
\* back the states hs[k], hs[k + 1], ... in the order they are called.
Outcome(tab, s, st, w, hs, k) ==
    IF w > strlen(s) THEN NoFailure
    ELSE OutcomeAfter(tab, s, st, Iteration(tab, s, st, w), hs, k)

\* The states the handlers dispatched in this call handed back.
HandedBack == [i \in 1..Len(calls) |-> calls[i].result.next_state]

\* C26: parse_error, the error message and the position line of a call are
\* a function of the table, the input and the states the handlers hand back
\* alone: every call starts from the same statics whatever the calls before
\* it left, and what it reports is what that function gives.
C26_DeterministicFailure ==
    /\ (pc = "loop" /\ last.kind = "start") =>
          /\ state = "INITIAL" /\ walk = 0
          /\ current_match = MatchInit
          /\ ~command_output.needs_tree_render
          /\ result = NoResult /\ errpos = NULLSTR
    /\ pc \in {"failed", "returned"} =>
          /\ result.parse_error =
                Outcome(tokens, input, "INITIAL", 0, HandedBack, 1).parse_error
          /\ result.error_message =
                Outcome(tokens, input, "INITIAL", 0, HandedBack, 1).error_message
          /\ errpos = Outcome(tokens, input, "INITIAL", 0, HandedBack, 1).position

\* A call failed in the state its one handler handed back, with the message
\* of that state and the carets from the offset the handler was called at.
C26_Witness ==
    /\ FailureReturned
    /\ Len(calls) = 1 /\ HandedBack = <<"EXEC">>
    /\ state = "EXEC"
    /\ result.error_message = ErrorMessage(tokens["EXEC"])
    /\ \E i \in 2..Len(errpos) : errpos[i - 1] = " " /\ errpos[i] = "^"

-----------------------------------------------------------------------------
(* Two commands in one input *)

\* The call on the input in has returned, and every handler it dispatched
\* handed back INITIAL.
ReturnedToInitial(in) ==
    /\ Returned(CommandTokens, in)
    /\ \A i \in 1..Len(calls) : calls[i].result.next_state = "INITIAL"

\* C27 as claimed: "move left, move right" dispatches two calls and makes one
\* cmd_criteria_init call in all; "move left; move right" dispatches two calls
\* and makes two.
C27_ResetCounts ==
    /\ ReturnedToInitial(I_moveComma) => Len(calls) = 2 /\ criteria_inits = 1
    /\ ReturnedToInitial(I_moveSemicolon) => Len(calls) = 2 /\ criteria_inits = 2

\* C27 amended: with a comma both dispatches follow the one
\* cmd_criteria_init of the head, and the second handler gets the selection
\* context as the first left it; with a semicolon the second dispatch follows
\* a cmd_criteria_init of its own and gets an initialized context.  Counting
\* the one made at the end of the input, the call makes two and three
\* cmd_criteria_init calls.
C27_ResetsBeforeCalls ==
    /\ ReturnedToInitial(I_moveComma) =>
          /\ ~result.parse_error /\ Len(calls) = 2
          /\ calls[1].inits = 1 /\ calls[2].inits = 1
          /\ calls[2].match = calls[1].result.match
          /\ criteria_inits = 2
    /\ ReturnedToInitial(I_moveSemicolon) =>
          /\ ~result.parse_error /\ Len(calls) = 2
          /\ calls[1].inits = 1 /\ calls[2].inits = 2
          /\ calls[2].match = MatchInit
          /\ criteria_inits = 3

\* "move left; move right" has returned: the first handler left criteria in
\* the selection context and the second was given an initialized one.
C27_Witness ==
    /\ ReturnedToInitial(I_moveSemicolon)
    /\ Len(calls) = 2
    /\ calls[1].result.match = MatchCriteria
    /\ calls[2].match = MatchInit
    /\ criteria_inits = 3

-----------------------------------------------------------------------------
(* The stack between calls *)

\* Every end token of the table leads to a call or to INITIAL.
EndTokensClear(tab) ==
    \A st \in DOMAIN tab : \A c \in 1..Len(tab[st]) :
        IsEnd(tab[st][c]) => tab[st][c].next_state \in {CALL, "INITIAL"}

-----------------------------------------------------------------------------
(* The dispatches of a call as a function of its arguments *)

RECURSIVE Dispatches(_, _, _, _, _, _, _)

\* The token was handled and its capture pushed: the dispatch it makes, if
\* any, then those of the rest of the call.
DispatchesVia(tab, s, token, w, pushed, hs, k) ==
    IF token.next_state # CALL
    THEN Dispatches(tab, s, token.next_state, w,
                    IF token.next_state = "INITIAL" THEN clear_stack(pushed) ELSE pushed,
                    hs, k)
    ELSE IF k > Len(hs) THEN <<>>
    ELSE <<[call_identifier |-> token.call_identifier, stack |-> pushed]>>
         \o Dispatches(tab, s, hs[k], w, clear_stack(pushed), hs, k + 1)

DispatchesAfter(tab, s, st, it, stk, hs, k) ==
    IF ~it.handled \/ (it.push.type # "none" /\ StackFull(stk)) THEN <<>>
    ELSE DispatchesVia(tab, s, tab[st][it.c], it.walk,
                       Push(stk, tab[st][it.c].identifier, it.push), hs, k)

\* The handlers a call on the input s dispatches, with the stack each is
\* given, from state st, offset w and stack stk, when the handlers hand back
\* the states hs[k], hs[k + 1], ...
Dispatches(tab, s, st, w, stk, hs, k) ==
    IF w > strlen(s) THEN <<>>
    ELSE DispatchesAfter(tab, s, st, Iteration(tab, s, st, w), stk, hs, k)

\* The stack as the lookups see it: the occupied slots (clear_stack leaves
\* the type of a slot behind, which no lookup reads in a free slot).
Visible(stk) ==
    [c \in Slots |-> IF stk[c].identifier = NULL THEN ZeroStack[c] ELSE stk[c]]

VisibleAll(list) ==
    [i \in 1..Len(list) |->
        [call_identifier |-> list[i].call_identifier, stack |-> Visible(list[i].stack)]]

\* What the handlers of this call were called with.
Dispatched == VisibleAll(calls)

\* The first n characters of the input alone are parsed without failure and
\* make the dispatches this call has made.
SameAsAlone(n) ==
    /\ ~Outcome(tokens, SubSeq(input, 1, n), "INITIAL", 0, HandedBack, 1).parse_error
    /\ VisibleAll(Dispatches(tokens, SubSeq(input, 1, n), "INITIAL", 0, ZeroStack,
                             HandedBack, 1))
          = Dispatched

\* C29: a failed iteration takes back nothing of the dispatches made before
\* it: the list of calls and command_output stay, and the result returned
\* with parse_error carries the OR of the render flags the handlers handed
\* back; when the handlers handed back INITIAL, the dispatches made are those
\* of the commands before the failure parsed on their own.
C29_DispatchesSurviveFailure ==
    /\ [][ IterationFailed =>
              /\ calls' = calls
              /\ command_output' = command_output
              /\ current_match' = current_match
        ]_vars
    /\ [](FailureReturned =>
              /\ result.needs_tree_render = RenderRequested
              /\ (\A i \in 1..Len(calls) : HandedBack[i] = "INITIAL") =>
                    \E n \in 0..Len(input) : SameAsAlone(n))

\* A call returned a failure after one dispatch whose handler asked for a
\* tree render: the result has the flag and the parse_error mark, and the
\* dispatch is that of the first command alone.
C29_Witness ==
    /\ FailureReturned
    /\ Len(calls) = 1 /\ HandedBack = <<"INITIAL">>
    /\ calls[1].result.needs_tree_render
    /\ result.needs_tree_render
    /\ \E n \in 1..(Len(input) - 1) : SameAsAlone(n)

-----------------------------------------------------------------------------
(* The stack across the transitions of one command *)

\* The step left every occupied slot as it was and occupied n more.
SlotsKeptAnd(n) ==
    /\ \A c \in Occupied(stack) : stack'[c] = stack[c]
    /\ Occupied(stack) \subseteq Occupied(stack')
    /\ Cardinality(Occupied(stack')) = Cardinality(Occupied(stack)) + n

\* C30: a handled token whose next_state is no call leaves the stack empty
\* when the new state is INITIAL, and otherwise leaves every occupied slot
\* as it was, with the token's own capture in one more slot if it has one;
\* a failed iteration leaves the stack empty.
C30_TransitionStack ==
    [][ /\ (TokenHandled /\ ~last'.called) =>
              IF state' = "INITIAL"
              THEN Occupied(stack') = {}
              ELSE SlotsKeptAnd(IF last'.pushed THEN 1 ELSE 0)
        /\ IterationFailed => Occupied(stack') = {}
      ]_vars

\* The literal 'left' of the one-command table pushed its capture and led
\* to INITIAL without a call: the capture is gone.
C30_Witness ==
    /\ pc = "loop"
    /\ tokens = MoveOnlyTokens
    /\ last.kind = "literal" /\ last.pushed /\ ~last.called
    /\ state = "INITIAL"
    /\ Occupied(stack) = {}

-----------------------------------------------------------------------------
(* The end token *)

RECURSIVE WalkBefore(_, _, _, _)
\* Where walk is when token c of the list is tried in an iteration that
\* started at w: where the tokens before it left it.
WalkBefore(s, list, c, w) ==
    IF c = 1 THEN w
    ELSE TryToken(s, list[c - 1], WalkBefore(s, list, c - 1, w)).walk

\* The iteration about to run gets to token c: no token before it is handled.
ReachesToken(c) ==
    /\ pc = "loop" /\ walk <= strlen(input)
    /\ c \in 1..Len(tokens[state])
    /\ \A j \in 1..(c - 1) :
          ~TryToken(input, tokens[state][j],
                    WalkBefore(input, tokens[state], j,
                               SkipWhitespace(input, walk))).handled

\* The offset token c is tried at in the iteration about to run.
TriedAt(c) == WalkBefore(input, tokens[state], c, SkipWhitespace(input, walk))

\* The step handled the end token c.
EndHandled(c) == TokenHandled /\ last'.kind = "end" /\ last'.c = c

\* C31: an end token the iteration gets to is handled if and only if the
\* character walk is at is the 0-byte, a comma or a semicolon; the step then
\* makes the token's transition, moves walk on by one and pushes nothing.
C31_EndMatcher ==
    [][ \A c \in 1..Len(tokens[state]) :
          (ReachesToken(c) /\ IsEnd(tokens[state][c])) =>
              /\ EndHandled(c) <=> At(input, TriedAt(c)) \in {NUL, ",", ";"}
              /\ EndHandled(c) =>
                    /\ last'.at = TriedAt(c) /\ last'.ch = At(input, TriedAt(c))
                    /\ walk' = TriedAt(c) + 1
                    /\ ~last'.pushed /\ StepCapturedNothing
                    /\ state' = IF tokens[state][c].next_state = CALL
                                THEN calls'[Len(calls')].result.next_state
                                ELSE tokens[state][c].next_state
      ]_vars

\* The end token of MOVE_DIRECTION, its second token, was handled at a
\* comma after the number token was not, and walk is past the comma.
C31_Witness ==
    /\ pc = "loop"
    /\ last.kind = "end" /\ last.c = 2 /\ last.ch = ","
    /\ last.from = "MOVE_DIRECTION"
    /\ walk = last.at + 1
    /\ Len(calls) >= 1

-----------------------------------------------------------------------------
(* White space between tokens *)

Blanks == {" ", "\t", "\r", "\n"}

\* The input s with the character ch put in at offset w.
InsertAt(s, w, ch) == SubSeq(s, 1, w) \o <<ch>> \o SubSeq(s, w + 1, Len(s))

\* One step of a run: what a handled token led to, or how the loop ended.
RunStep(kind, st, stk, call, given) ==
    [kind |-> kind, state |-> st, stack |-> Visible(stk),
     call_identifier |-> call, given |-> Visible(given)]

RECURSIVE Runs(_, _, _, _, _)

\* The token was handled and its capture pushed: the state and the stack
\* next_state leaves, for a call with the handler and the stack it is given
\* and for every state the handler may hand back, then the rest of the run.
RunsVia(tab, s, token, w, pushed) ==
    IF token.next_state = CALL
    THEN UNION {{<<RunStep("call", h, clear_stack(pushed), token.call_identifier, pushed)>>
                    \o run : run \in Runs(tab, s, h, w, clear_stack(pushed))} :
                h \in HandlerStates(tab)}
    ELSE IF token.next_state = "INITIAL"
    THEN {<<RunStep("state", "INITIAL", clear_stack(pushed), 0, ZeroStack)>> \o run :
             run \in Runs(tab, s, "INITIAL", w, clear_stack(pushed))}
    ELSE {<<RunStep("state", token.next_state, pushed, 0, ZeroStack)>> \o run :
             run \in Runs(tab, s, token.next_state, w, pushed)}

RunsAfter(tab, s, st, it, stk) ==
    IF ~it.handled THEN {<<RunStep("failed", st, ZeroStack, 0, ZeroStack)>>}
    ELSE IF it.push.type # "none" /\ StackFull(stk)
    THEN {<<RunStep("exit", st, stk, 0, ZeroStack)>>}
    ELSE RunsVia(tab, s, tab[st][it.c], it.walk,
                 Push(stk, tab[st][it.c].identifier, it.push))

\* The runs of the driver loop on the input s from state st, offset w and
\* stack stk, one for each way the handlers may behave: the states gone
\* through, the captures on the stack in each, the dispatches with the
\* captures given to the handler, and a last step if the loop ends by a
\* failure or by the exit of the process.
Runs(tab, s, st, w, stk) ==
    IF w > strlen(s) THEN {<<>>}
    ELSE RunsAfter(tab, s, st, Iteration(tab, s, st, w), stk)

\* The runs of the rest of the call on the input s.
RestRuns(s) == Runs(tokens, s, state, walk, stack)

\* With one more character of white space at walk the rest of the call has
\* the runs given.
SameRest(runs) == \A ch \in Blanks : RestRuns(InsertAt(input, walk, ch)) = runs

\* C32: the tokens of an iteration are tried from the first offset at or
\* after walk that has no space, tab, carriage return or newline, which is
\* never past the 0-byte; and where an iteration starts at white space, one
\* more character of white space there changes neither the states, captures
\* and dispatches of the rest of the call nor whether it fails, whatever the
\* handlers hand back.
C32_WhitespaceSkipped ==
    /\ [][ /\ TokenHandled =>
                /\ last'.at >= AfterBlanks(input, walk)
                /\ (last'.c = 1 => last'.at = AfterBlanks(input, walk))
                /\ last'.at <= strlen(input)
           /\ IterationFailed =>
                /\ walk' >= AfterBlanks(input, walk)
                /\ walk' <= strlen(input)
        ]_vars
    /\ []((pc = "loop" /\ walk < strlen(input) /\ At(input, walk) \in Blanks) =>
              SameRest(RestRuns(input)))

\* The literal 'left' was handled after the white space that follows
\* 'move': the iteration started at the space and the token was tried after.
C32_Witness ==
    /\ pc = "loop"
    /\ last.kind = "literal" /\ last.from = "MOVE"
    /\ At(input, last.at - 1) \in Blanks
    /\ state = "MOVE_DIRECTION"

-----------------------------------------------------------------------------
(* Progress of the driver loop *)

\* Every handled token moves walk on, and never past the offset after the
\* 0-byte: walk counts the tokens a call can handle.
HandledAdvances ==
    TokenHandled => walk' > walk /\ last'.at >= walk /\ walk' > last'.at
                        /\ walk' <= strlen(input) + 1

\* The step leaves the driver loop.
LoopLeft == pc = "loop" /\ pc' # "loop"

\* The loop is left by the break after a failed iteration.
LeftByFailure == pc' = "failed" /\ result'.parse_error

\* The loop is left after an end token handled at the 0-byte.
LeftByEnd ==
    /\ pc' = "returned"
    /\ last.kind = "end" /\ last.ch = NUL /\ walk = strlen(input) + 1

\* The process exits in a push on a full stack.
LeftByExit == pc' = "aborted" /\ StackFull(stack) /\ last'.pushed

\* C33 as claimed: every handled token moves walk on by at least one, and
\* the loop is left by a failed iteration or after an end token at the
\* 0-byte.
C33_EndsByFailureOrEnd ==
    [][ /\ HandledAdvances
        /\ LoopLeft => LeftByFailure \/ LeftByEnd
      ]_vars

\* C33 amended: every handled token moves walk on by at least one, and the
\* loop is left by a failed iteration, after an end token at the 0-byte, or
\* by the exit of the process in a push on a full stack.
C33_EndsByFailureEndOrExit ==
    [][ /\ HandledAdvances
        /\ LoopLeft => LeftByFailure \/ LeftByEnd \/ LeftByExit
      ]_vars

\* The process exited in the middle of the input, after as many handled
\* tokens as the stack has slots and one more for 'exec'.
C33_Witness ==
    /\ pc = "aborted"
    /\ input = TooManyIdentified
    /\ walk = strlen(S_exec) + StackSize * strlen(S_nosn)
    /\ walk < strlen(input)

-----------------------------------------------------------------------------
(* The range of the walk pointer *)

\* Where a token leaves walk when tried at w, handled or not.
WalkLeft(token, w) == TryToken(input, token, w).walk

\* C34: in the driver loop walk is an offset of the input, its 0-byte
\* included, or one past the 0-byte after an end token handled there; every
\* literal, number, string or word token an iteration gets to is tried at an
\* offset of the input and leaves walk at one, handled or not.
C34_WalkInRange ==
    /\ pc \in {"loop", "failed"} =>
          /\ walk \in 0..(strlen(input) + 1)
          /\ walk = strlen(input) + 1 =>
                pc = "loop" /\ last.kind = "end" /\ last.ch = NUL
                    /\ last.at = strlen(input)
    /\ \A c \in 1..Len(tokens[state]) :
          (ReachesToken(c) /\ ~IsEnd(tokens[state][c])) =>
              /\ TriedAt(c) \in walk..strlen(input)
              /\ WalkLeft(tokens[state][c], TriedAt(c)) \in TriedAt(c)..strlen(input)

\* A string token was handled on a value with an opening quote, no closing
\* one and a backslash as its last character: walk is at the 0-byte.
C34_Witness ==
    /\ pc = "loop"
    /\ last.kind = "string" /\ At(input, last.at) = "\""
    /\ At(input, strlen(input) - 1) = "\\"
    /\ walk = strlen(input)
    /\ \A i \in (last.at + 1)..(strlen(input) - 1) : At(input, i) # "\""

-----------------------------------------------------------------------------
(* The lookups *)

\* The names the table gives to captures, and one it does not.
CaptureNames ==
    UNION {{tokens[st][c].identifier : c \in 1..Len(tokens[st])} : st \in DOMAIN tokens}
        \ {NULL}

S_absent == "absent"

\* The occupied slots are the first ones of the array.
OccupiedPrefix(stk) ==
    \A c \in Occupied(stk) : \A d \in 0..c : d \in Occupied(stk)

\* The slots of the whole array that hold the name.
Named(stk, identifier) == {c \in Slots : stk[c].identifier = identifier}

LowestNamed(stk, identifier) ==
    CHOOSE c \in Named(stk, identifier) : \A d \in Named(stk, identifier) : c <= d

\* The lookups find every name a slot of the stack holds, with the value of
\* the lowest such slot, and nothing for any other name.
LookupsComplete(stk) ==
    \A identifier \in CaptureNames \cup {S_absent} :
        IF Named(stk, identifier) = {}
        THEN get_string(stk, identifier) = NULLSTR /\ get_long(stk, identifier) = 0
        ELSE /\ get_string(stk, identifier) = stk[LowestNamed(stk, identifier)].str
             /\ get_long(stk, identifier) = stk[LowestNamed(stk, identifier)].num

\* C35: the occupied slots of the stack are the first slots of the array,
\* in the driver and in what every handler is given, so the lookups, which
\* stop at the first free slot, find every name that was pushed, and give
\* NULL and 0 for a name that was not.
C35_OccupiedPrefix ==
    /\ OccupiedPrefix(stack) /\ LookupsComplete(stack)
    /\ \A i \in 1..Len(calls) :
          OccupiedPrefix(calls[i].stack) /\ LookupsComplete(calls[i].stack)

\* Five captures of one command are in the slots 0 to 4: the lookup of
\* their name finds the first, that of other names nothing.
C35_Witness ==
    /\ pc = "loop"
    /\ Occupied(stack) = 0..4
    /\ get_string(stack, "nosn") = S_nosn
    /\ get_string(stack, "command") = NULLSTR
    /\ get_long(stack, "pixels") = 0

-----------------------------------------------------------------------------
(* A quoted value without closing quote *)

\* A double quote at offset open starts a value of at least one character
\* that no double quote closes.
UnterminatedQuoted(s, open) ==
    /\ At(s, open) = "\""
    /\ open + 1 < strlen(s)
    /\ UnescapedQuotes(s, open) = {}

\* C36: a string or word token tried at a double quote that is followed by
\* at least one character and closed by no quote is handled: walk goes to
\* the 0-byte and the capture is the text after the quote, decoded.
C36_UnterminatedQuote ==
    [][ \A w \in 0..strlen(input) :
          (StringTokenTriedAt(w) /\ UnterminatedQuoted(input, w)) =>
              /\ StringHandled
              /\ last'.at = w
              /\ walk' = strlen(input)
              /\ StepCaptured(StrCapture(Decoded(Text(input, w + 1, strlen(input)))))
      ]_vars

\* The string token of 'exec' was handled on a quote followed by an escaped
\* quote and nothing else: the capture is one double quote, and walk is at
\* the 0-byte.
C36_Witness ==
    /\ pc = "loop" /\ last.kind = "string" /\ last.called
    /\ UnterminatedQuoted(input, last.at)
    /\ Text(input, last.at + 1, strlen(input)) = <<"\\", "\"">>
    /\ walk = strlen(input)
    /\ get_string(calls[Len(calls)].stack, "command") = <<"\"">>

-----------------------------------------------------------------------------
(* Literals written without separator *)

\* The characters that separate tokens or end a command.
Separators == Blanks \cup {NUL, ",", ";"}

\* The input has the text at offset w and no separator after it.
FollowedBy(text, w) ==
    StartsWith(input, w, text) /\ At(input, w + Len(text)) \notin Separators

\* C37: a literal token the iteration gets to is handled when the input has
\* its text at the offset, whatever character follows the text; and where a
\* literal was handled with no white space after it, white space put in
\* there changes neither the states and captures nor the dispatches of the
\* rest of the call, whatever the handlers hand back.
C37_NoDelimiterNeeded ==
    /\ [][ \A c \in 1..Len(tokens[state]) :
              (/\ TokenTriedAt(c, AfterBlanks(input, walk))
               /\ IsLiteral(tokens[state][c])
               /\ FollowedBy(LiteralText(tokens[state][c]), AfterBlanks(input, walk))) =>
                  /\ LiteralHandled /\ last'.c = c
                  /\ walk' = AfterBlanks(input, walk) + Len(LiteralText(tokens[state][c]))
        ]_vars
    /\ []((pc = "loop" /\ last.kind = "literal" /\ walk < strlen(input)
              /\ At(input, walk) \notin Blanks) =>
              SameRest(RestRuns(input)))

\* "moveleft" has led to a dispatch with the capture of 'left', as "move
\* left" does.
C37_Witness ==
    /\ pc = "loop" /\ input = I_moveleft
    /\ last.kind = "end" /\ last.called
    /\ get_string(calls[1].stack, "direction") = S_left
    /\ Runs(tokens, I_moveLeft, "INITIAL", 0, ZeroStack)
          = Runs(tokens, I_moveleft, "INITIAL", 0, ZeroStack)

-----------------------------------------------------------------------------
(* The order of the dispatch and cmd_criteria_init *)

\* The dispatch the step made.
StepCall == calls'[Len(calls')]

\* C38: when an end token that calls is handled at a semicolon or at the
\* 0-byte, the handler is given the selection context as it was before the
\* token, with no cmd_criteria_init call between; the call of
\* cmd_criteria_init follows the handler and leaves the context initialized
\* whatever the handler did to it.
C38_DispatchBeforeReinit ==
    [][ (BoundaryConsumed /\ last'.called) =>
            /\ Len(calls') = Len(calls) + 1
            /\ StepCall.match = current_match
            /\ StepCall.inits = criteria_inits
            /\ criteria_inits' = criteria_inits + 1
            /\ current_match' = MatchInit
      ]_vars

\* The handler called at the end of the input was given the criteria the
\* handler before it, called at a comma, had left, and added its own; the
\* context is initialized after it.
C38_Witness ==
    /\ pc = "loop"
    /\ last.kind = "end" /\ last.ch = NUL /\ last.called
    /\ Len(calls) = 2
    /\ calls[2].match = MatchCriteria
    /\ calls[2].result.match = MatchCriteria
    /\ calls[2].inits = 1 /\ criteria_inits = 2
    /\ current_match = MatchInit


=============================================================================
